---- MODULE Spec2Model ----
(***************************************************************************)
(* Living Documentation Framework: the confidence scoring engine           *)
(* (tools/confidence_engine.py) and the legacy confidence calculator       *)
(* (tools/calculate_confidence.py).                                        *)
(*                                                                         *)
(* Python floats are modelled as fixed-point integers: the number x.yyyy   *)
(* is the integer x.yyyy * FP (FP = 10^6).  math.exp, math.log1p and       *)
(* ** 1.5 are computed by series and bisection on that grid, round() by    *)
(* round-half-even on it.                                                  *)
(***************************************************************************)
EXTENDS Integers, Sequences, FiniteSets

\* ------------------------------------------------------------------------
\* Fixed-point arithmetic standing for Python's float arithmetic
\* ------------------------------------------------------------------------

\* One unit of the fixed-point grid: 1.0 is FP, 0.000001 is 1.
FP == 1000 * 1000

\* The limb MulFx splits its factors by: Limb * Limb = FP.
Limb == 10 * 100

Max2(a, b) == IF a >= b THEN a ELSE b

Min2(a, b) == IF a <= b THEN a ELSE b

\* a / b for integers a >= 0, b > 0, rounded to the nearest integer.
RDiv(a, b) == (2 * a + b) \div (2 * b)

\* The digits after the point of r / b (0 <= r < b), n of them, by long
\* division; the last digit is rounded.
RECURSIVE FracDigits(_, _, _, _)
FracDigits(r, b, n, acc) ==
    IF n = 0 THEN acc + (IF 2 * r >= b THEN 1 ELSE 0)
    ELSE FracDigits((r * 10) % b, b, n - 1, acc * 10 + ((r * 10) \div b))

\* The float quotient a / b (b > 0, both integers or both grid values) as a
\* grid value.
DivFx(a, b) ==
    IF a >= 0 THEN (a \div b) * FP + FracDigits(a % b, b, 6, 0)
    ELSE 0 - ((0 - a) \div b) * FP - FracDigits((0 - a) % b, b, 6, 0)

\* The float product a * b of two grid values (a, b >= 0) as a grid value,
\* without leaving 32-bit integers: a = a1 * Limb + a0, b = b1 * Limb + b0.
MulFx(a, b) ==
    LET a1 == a \div Limb
        a0 == a % Limb
        b1 == b \div Limb
        b0 == b % Limb
    IN  a1 * b1 + RDiv(a1 * b0 + a0 * b1 + RDiv(a0 * b0, Limb), Limb)

\* round(x, ndigits) with unit = FP / 10^ndigits: the nearest multiple of
\* unit, ties to the even multiple (Python 3 round), x >= 0.
RoundTo(x, unit) ==
    LET q == x \div unit
        r == x % unit
    IN  IF 2 * r > unit THEN (q + 1) * unit
        ELSE IF 2 * r < unit THEN q * unit
        ELSE IF q % 2 = 0 THEN q * unit ELSE (q + 1) * unit

\* round(x)
Round0(x) == RoundTo(x, FP)

\* round(x, 1)
Round1(x) == RoundTo(x, FP \div 10)

\* round(x, 2)
Round2(x) == RoundTo(x, FP \div 100)

\* round(x, 3)
Round3(x) == RoundTo(x, FP \div 1000)

\* e^(-r) for a grid value 0 <= r <= FP, by the alternating series in
\* Horner form, 1 - r/1 (1 - r/2 (1 - r/3 ( ... ))), cut after 12 terms.
RECURSIVE ExpNegHorner(_, _)
ExpNegHorner(r, i) ==
    IF i > 12 THEN FP
    ELSE FP - RDiv(MulFx(r, ExpNegHorner(r, i + 1)), i)

\* e^(-1)
ExpNeg1 == ExpNegHorner(FP, 1)

\* e^(-q) for an integer q >= 0: e^(-1) multiplied q times; e^(-20) is
\* below the grid.
RECURSIVE ExpNegInt(_)
ExpNegInt(q) ==
    IF q = 0 THEN FP
    ELSE IF q >= 20 THEN 0
    ELSE MulFx(ExpNeg1, ExpNegInt(q - 1))

\* e^(-x) for a grid value x >= 0.
ExpDecay(x) == MulFx(ExpNegInt(x \div FP), ExpNegHorner(x % FP, 1))

\* math.exp(-x) for a grid value x; for x < 0 it is 1 / e^(-|x|) (|x| < 13,
\* beyond which e^(-|x|) is 0 on the grid).
ExpNeg(x) == IF x >= 0 THEN ExpDecay(x) ELSE DivFx(FP, ExpDecay(0 - x))

\* atanh(u) = u + u^3/3 + u^5/5 + ... for a grid value 0 <= u <= 1/3;
\* pow is u^i, u2 is u^2.
RECURSIVE AtanhSeries(_, _, _)
AtanhSeries(u2, pow, i) ==
    IF pow = 0 THEN 0
    ELSE RDiv(pow, i) + AtanhSeries(u2, MulFx(pow, u2), i + 2)

\* ln(m) for a grid value FP <= m <= 2 FP: 2 atanh((m - 1) / (m + 1)).
LnMantissa(m) ==
    LET u == DivFx(m - FP, m + FP)
    IN  2 * AtanhSeries(MulFx(u, u), u, 1)

\* ln 2
Ln2 == LnMantissa(2 * FP)

\* ln(z) for a grid value z >= FP: z is halved into [1, 2] and ln 2 is
\* added once per halving.
RECURSIVE LnFx(_)
LnFx(z) ==
    IF z <= 2 * FP THEN LnMantissa(z)
    ELSE Ln2 + LnFx(RDiv(z, 2))

\* math.log1p(y) for a grid value y >= 0.
Log1p(y) == LnFx(FP + y)

\* The largest integer s in lo..hi with s * s <= n, by bisection.
RECURSIVE ISqrt(_, _, _)
ISqrt(n, lo, hi) ==
    IF lo >= hi THEN lo
    ELSE LET mid == (lo + hi + 1) \div 2
         IN  IF mid * mid <= n THEN ISqrt(n, mid, hi) ELSE ISqrt(n, lo, mid - 1)

\* sqrt(g) for a grid value 0 <= g <= 2000 FP: the integer square root of
\* g, to three decimals, improved by one Newton step (s + g / s) / 2.
SqrtFx(g) ==
    LET s0 == ISqrt(g, 0, 45 * Limb) * Limb
    IN  IF s0 = 0 THEN 0 ELSE RDiv(s0 + DivFx(g, s0), 2)

\* g ** 1.5 for a grid value g >= 0: g * sqrt(g).
Pow15(g) == MulFx(g, SqrtFx(g))

\* ------------------------------------------------------------------------
\* Python dictionaries and Optional values
\* ------------------------------------------------------------------------

\* d.get(k, default) for a dictionary d (a function on its keys).
Get(d, k, default) == IF k \in DOMAIN d THEN d[k] ELSE default

\* The empty dictionary {}.
EmptyDict == [k \in {} |-> 0]

\* An Optional value is a sequence of at most one element: None is <<>>.
None == <<>>

Some(v) == <<v>>

\* ------------------------------------------------------------------------
\* confidence_engine.py: FormulaConfig and its loader
\* ------------------------------------------------------------------------

\* FormulaConfig(): the dataclass defaults.
FormulaConfig ==
    [K |-> 50 * FP,
     p0_max |-> 15 * FP, p0_k |-> 1 * FP,
     p1_max |-> 10 * FP, p1_k |-> 3 * FP,
     p2_max |-> 5 * FP,  p2_k |-> 6 * FP,
     p3_max |-> (15 * FP) \div 10, p3_k |-> 25 * FP,
     cap_severity |-> 35 * FP, cap_doc |-> 10 * FP, cap_staleness |-> 10 * FP,
     cap_tier_a |-> 8 * FP, cap_test |-> 3 * FP, cap_resolution |-> 6 * FP,
     cap_hotspot |-> 6 * FP, cap_recurrence |-> 4 * FP,
     doc_target |-> (90 * FP) \div 100,
     fix_target |-> (70 * FP) \div 100,
     test_target |-> (30 * FP) \div 100,
     alpha |-> 3 * FP, beta |-> 2 * FP,
     fix_ratio_bonus_enabled |-> TRUE,
     fix_ratio_bonus_threshold |-> (90 * FP) \div 100,
     fix_ratio_bonus_max |-> 10 * FP,
     investigating_discount |-> (5 * FP) \div 10]

\* A JSON value that is an object (dict) or something else (a number, a
\* list, a string): only an object has .get.
JObject(fields) == [isdict |-> TRUE, fields |-> fields]

JOther == [isdict |-> FALSE, fields |-> EmptyDict]

\* formula.get(section, {}) of the parsed document.
Section(formula, name) == Get(formula.fields, name, JObject(EmptyDict))

\* _load_config, lines 110-121: K and the severity weights.
LoadWeights(cfg, formula) ==
    LET w == Section(formula, "severity_weights").fields
    IN  [cfg EXCEPT !.p0_max = Get(w, "p0_max", @), !.p0_k = Get(w, "p0_k", @),
                    !.p1_max = Get(w, "p1_max", @), !.p1_k = Get(w, "p1_k", @),
                    !.p2_max = Get(w, "p2_max", @), !.p2_k = Get(w, "p2_k", @),
                    !.p3_max = Get(w, "p3_max", @), !.p3_k = Get(w, "p3_k", @)]

\* _load_config, lines 124-132: the penalty caps.
LoadCaps(cfg, formula) ==
    LET c == Section(formula, "penalty_caps").fields
    IN  [cfg EXCEPT !.cap_severity = Get(c, "severity", @),
                    !.cap_doc = Get(c, "doc_coverage", @),
                    !.cap_staleness = Get(c, "staleness", @),
                    !.cap_tier_a = Get(c, "tier_a", @),
                    !.cap_test = Get(c, "test_coverage", @),
                    !.cap_resolution = Get(c, "resolution", @),
                    !.cap_hotspot = Get(c, "hotspot", @),
                    !.cap_recurrence = Get(c, "recurrence", @)]

\* _load_config, lines 135-138: the thresholds.
LoadThresholds(cfg, formula) ==
    LET t == Section(formula, "thresholds").fields
    IN  [cfg EXCEPT !.doc_target = Get(t, "doc_coverage_target", @),
                    !.fix_target = Get(t, "fix_rate_target", @),
                    !.test_target = Get(t, "test_coverage_target", @)]

\* _load_config, lines 141-143: the Bayesian priors.
LoadPriors(cfg, formula) ==
    LET p == Section(formula, "bayesian_priors").fields
    IN  [cfg EXCEPT !.alpha = Get(p, "alpha", @), !.beta = Get(p, "beta", @)]

\* LoadBonus replacing the whole section: a field the section does not name
\* is cleared instead of kept.
LoadBonusWholeSection(cfg, formula) ==
    LET b == Section(formula, "fix_ratio_bonus").fields
    IN  IF "fix_ratio_bonus" \in DOMAIN formula.fields
        THEN [cfg EXCEPT !.fix_ratio_bonus_enabled = Get(b, "enabled", FALSE),
                         !.fix_ratio_bonus_threshold = Get(b, "threshold", 0),
                         !.fix_ratio_bonus_max = Get(b, "max_bonus", 0),
                         !.investigating_discount =
                             Get(formula.fields, "investigating_discount", @)]
        ELSE [cfg EXCEPT !.investigating_discount =
                             Get(formula.fields, "investigating_discount", @)]

\* _load_config, lines 146-152: the fix ratio bonus and the investigating
\* discount.
LoadBonus(cfg, formula) ==
    LET b == Section(formula, "fix_ratio_bonus").fields
    IN  [cfg EXCEPT !.fix_ratio_bonus_enabled = Get(b, "enabled", @),
                    !.fix_ratio_bonus_threshold = Get(b, "threshold", @),
                    !.fix_ratio_bonus_max = Get(b, "max_bonus", @),
                    !.investigating_discount =
                        Get(formula.fields, "investigating_discount", @)]

\* ConfidenceCalculator._load_config(config_path) on self.config = cfg.  The
\* file is [exists, parses, data]: data is the parsed JSON document.  The
\* assignments run in the order of the code; a section that is not an object
\* raises at its first .get and the except clause keeps what was assigned
\* before it.
_load_config(cfg, file) ==
    IF ~file.exists THEN cfg
    ELSE IF ~file.parses \/ ~file.data.isdict THEN cfg
    ELSE LET formula == Get(file.data.fields, "confidence_formula",
                            JObject(EmptyDict))
             c1 == [cfg EXCEPT !.K = Get(formula.fields, "K", @)]
             c2 == LoadWeights(c1, formula)
             c3 == LoadCaps(c2, formula)
             c4 == LoadThresholds(c3, formula)
             c5 == LoadPriors(c4, formula)
         IN  IF ~formula.isdict THEN cfg
             ELSE IF ~Section(formula, "severity_weights").isdict THEN c1
             ELSE IF ~Section(formula, "penalty_caps").isdict THEN c2
             ELSE IF ~Section(formula, "thresholds").isdict THEN c3
             ELSE IF ~Section(formula, "bayesian_priors").isdict THEN c4
             ELSE IF ~Section(formula, "fix_ratio_bonus").isdict THEN c5
             ELSE LoadBonus(c5, formula)

\* The exception the body of the try block of _load_config raises, "none" if
\* it runs to its end: json.loads on a file that is no JSON, .get on a value
\* that is no dictionary.
LoadRaises(file) ==
    IF ~file.parses THEN "JSONDecodeError"
    ELSE IF ~file.data.isdict THEN "AttributeError"
    ELSE LET formula == Get(file.data.fields, "confidence_formula",
                            JObject(EmptyDict))
         IN  IF ~formula.isdict THEN "AttributeError"
             ELSE IF \E name \in {"severity_weights", "penalty_caps", "thresholds",
                                  "bayesian_priors", "fix_ratio_bonus"} :
                        ~Section(formula, name).isdict
                  THEN "AttributeError"
                  ELSE "none"

\* `except Exception as e: print(...)`: what leaves _load_config when the try
\* block raised `raised`; every exception is caught.
ExceptException(raised) == "none"

\* What ConfidenceCalculator(config_path) raises, "none" if it returns.
InitRaises(config_path) ==
    IF config_path = None \/ ~config_path[1].exists THEN "none"
    ELSE ExceptException(LoadRaises(config_path[1]))

\* ConfidenceCalculator.__init__(config_path): config_path is an Optional
\* file.
ConfidenceCalculator(config_path) ==
    IF config_path = None THEN FormulaConfig
    ELSE _load_config(FormulaConfig, config_path[1])

\* ------------------------------------------------------------------------
\* confidence_engine.py: ConfidenceCalculator.calculate
\* ------------------------------------------------------------------------

\* SeverityTier with the "1 -" lost: a tier that decays as bugs are opened.
SeverityTierDecaying(max, k, open) == MulFx(max, ExpNeg(DivFx(open * FP, k)))

\* max_t * (1 - math.exp(-open_t / k_t)): one tier of the saturating
\* severity formula; open is an integer count.
SeverityTier(max, k, open) == MulFx(max, FP - ExpNeg(DivFx(open * FP, k)))

\* 1. severity_penalty = min(sev_p0 + sev_p1 + sev_p2 + sev_p3, cap_severity)
SeverityPenalty(cfg, sev_p0, sev_p1, sev_p2, sev_p3) ==
    Min2(sev_p0 + sev_p1 + sev_p2 + sev_p3, cfg.cap_severity)

\* doc_coverage = mapped / max(total_files, 1)
DocCoverage(mapped, total_files) == DivFx(mapped, Max2(total_files, 1))

\* DocPenalty with the gap taken as a distance, abs(doc_target - doc_coverage).
DocPenaltyAbsGap(cfg, doc_coverage) ==
    LET doc_gap == Max2(cfg.doc_target - doc_coverage, doc_coverage - cfg.doc_target)
    IN  Min2(25 * Pow15(doc_gap), cfg.cap_doc)

\* 2. doc_penalty
DocPenalty(cfg, doc_coverage) ==
    LET doc_gap == Max2(0, cfg.doc_target - doc_coverage)
    IN  Min2(25 * Pow15(doc_gap), cfg.cap_doc)

\* 3. staleness_penalty: stale_count is the constant 0 of the code.
StalenessPenalty(cfg) ==
    LET stale_count == 0
    IN  Min2((stale_count * FP) \div 2, cfg.cap_staleness)

\* 4. tier_a_penalty: tier_a_unmapped is the constant 0 of the code.
TierAPenalty(cfg) ==
    LET tier_a_unmapped == 0
    IN  Min2(tier_a_unmapped * 2 * FP, cfg.cap_tier_a)

\* 5. test_penalty
TestPenalty(cfg, tests_count, total_files) ==
    LET test_pct == DivFx(tests_count, Max2(total_files, 1))
        test_gap == Max2(0, cfg.test_target - test_pct)
    IN  Min2(10 * Pow15(test_gap), cfg.cap_test)

\* fix_pct_bayes = (bugs_fixed + alpha) / max(bugs_total + alpha + beta, 1)
FixPctBayes(cfg, bugs_total, bugs_fixed) ==
    DivFx(bugs_fixed * FP + cfg.alpha,
          Max2(bugs_total * FP + cfg.alpha + cfg.beta, FP))

\* 6. resolve_penalty
ResolvePenalty(cfg, fix_pct_bayes) ==
    LET fix_gap == Max2(0, cfg.fix_target - fix_pct_bayes)
    IN  Min2(18 * Pow15(fix_gap), cfg.cap_resolution)

\* 7. persistence_penalty
PersistencePenalty == 0

\* The hotspot loop: the number of hotspots whose risk is `risk`.
RECURSIVE CountRisk(_, _)
CountRisk(hotspots, risk) ==
    IF hotspots = <<>> THEN 0
    ELSE (IF Get(Head(hotspots), "risk", "low") = risk THEN 1 ELSE 0)
         + CountRisk(Tail(hotspots), risk)

\* The hotspot loop: recurrence_sum.
RECURSIVE RecurrenceSum(_)
RecurrenceSum(hotspots) ==
    IF hotspots = <<>> THEN 0
    ELSE Get(Head(hotspots), "bug_recurrence", 0) + RecurrenceSum(Tail(hotspots))

\* `fingerprints and "hotspots" in fingerprints`
HasHotspots(fingerprints) ==
    /\ fingerprints # None
    /\ "hotspots" \in DOMAIN fingerprints[1]

\* HotspotPenalty without min(..., cap_hotspot).
HotspotPenaltyUncapped(cfg, fingerprints) ==
    IF HasHotspots(fingerprints)
    THEN LET hs == fingerprints[1].hotspots
             high_count == CountRisk(hs, "high")
             med_count == CountRisk(hs, "medium")
         IN  2 * Log1p((3 * high_count + 1 * med_count) * FP)
    ELSE 0

\* 8. hotspot_penalty
HotspotPenalty(cfg, fingerprints) ==
    IF HasHotspots(fingerprints)
    THEN LET hs == fingerprints[1].hotspots
             high_count == CountRisk(hs, "high")
             med_count == CountRisk(hs, "medium")
         IN  Min2(2 * Log1p((3 * high_count + 1 * med_count) * FP), cfg.cap_hotspot)
    ELSE 0

\* avg_recurrence
AvgRecurrence(fingerprints) ==
    IF HasHotspots(fingerprints) /\ Len(fingerprints[1].hotspots) > 0
    THEN DivFx(RecurrenceSum(fingerprints[1].hotspots), Len(fingerprints[1].hotspots))
    ELSE 0

\* 9. recurrence_penalty = min(2.5 * log1p(avg_recurrence * 10), cap)
RecurrencePenalty(cfg, avg_recurrence) ==
    Min2(RDiv(25 * Log1p(avg_recurrence * 10), 10), cfg.cap_recurrence)

\* 10. critical_status
CriticalStatus(p0_open, p0_found, p0_fixed) ==
    IF p0_found > 0 /\ p0_open > 0 THEN "open"
    ELSE IF p0_found > 0 /\ p0_fixed = p0_found THEN "all_fixed"
    ELSE "none"

\* FixRatioBonus with the sample test bugs_total >= 10.
FixRatioBonusAtTen(cfg, bugs_total, bugs_fixed) ==
    IF cfg.fix_ratio_bonus_enabled /\ bugs_total >= 10
    THEN LET actual_fix_rate == IF bugs_total > 0 THEN DivFx(bugs_fixed, bugs_total) ELSE 0
         IN  IF actual_fix_rate > cfg.fix_ratio_bonus_threshold
             THEN MulFx(cfg.fix_ratio_bonus_max,
                        DivFx(actual_fix_rate - cfg.fix_ratio_bonus_threshold,
                              FP - cfg.fix_ratio_bonus_threshold))
             ELSE 0
    ELSE 0

\* 11. fix_ratio_bonus
FixRatioBonus(cfg, bugs_total, bugs_fixed) ==
    IF cfg.fix_ratio_bonus_enabled /\ bugs_total > 10
    THEN LET actual_fix_rate == IF bugs_total > 0 THEN DivFx(bugs_fixed, bugs_total) ELSE 0
         IN  IF actual_fix_rate > cfg.fix_ratio_bonus_threshold
             THEN MulFx(cfg.fix_ratio_bonus_max,
                        DivFx(actual_fix_rate - cfg.fix_ratio_bonus_threshold,
                              FP - cfg.fix_ratio_bonus_threshold))
             ELSE 0
    ELSE 0

\* TotalPenalty with the bonus added instead of subtracted.
TotalPenaltyBonusAdded(raw_penalty, fix_ratio_bonus) ==
    Max2(0, raw_penalty + fix_ratio_bonus)

\* total_penalty = max(0, raw_penalty - fix_ratio_bonus)
TotalPenalty(raw_penalty, fix_ratio_bonus) == Max2(0, raw_penalty - fix_ratio_bonus)

\* score = 100 * math.exp(-total_penalty / K)
DecayScore(total_penalty, k) == 100 * ExpNeg(DivFx(total_penalty, k))

\* ClampScore without the rounding.
ClampScoreNoRound(score) == Max2(0, Min2(100 * FP, score))

\* ClampScore rounding to a whole number, round(score).
ClampScoreWhole(score) == Max2(0, Min2(100 * FP, Round0(score)))

\* score = max(0, min(100, round(score, 1)))
ClampScore(score) == Max2(0, Min2(100 * FP, Round1(score)))

\* The exception calculate raises on numeric inputs, "none" if it returns: a
\* float division by zero, in the order of the code: by a saturation rate
\* p0_k..p3_k, by 1.0 - fix_ratio_bonus_threshold, by K.
CalculateRaises(cfg, bugs_total, bugs_fixed) ==
    IF cfg.p0_k = 0 \/ cfg.p1_k = 0 \/ cfg.p2_k = 0 \/ cfg.p3_k = 0
    THEN "ZeroDivisionError"
    ELSE IF /\ cfg.fix_ratio_bonus_enabled
            /\ bugs_total > 10
            /\ DivFx(bugs_fixed, bugs_total) > cfg.fix_ratio_bonus_threshold
            /\ FP - cfg.fix_ratio_bonus_threshold = 0
    THEN "ZeroDivisionError"
    ELSE IF cfg.K = 0 THEN "ZeroDivisionError"
    ELSE "none"

\* ConfidenceCalculator.calculate(aggregates, stats, fingerprints) under
\* self.config = cfg.  stats and fingerprints are Optional.  The unrounded
\* locals of the call are returned beside the result dictionary, under
\* "locals", so that statements about them can be made.  A call that raises
\* returns [raised |-> the exception].
calculate(cfg, aggregates, stats_arg, fingerprints) ==
    LET sev == Get(aggregates, "severity", EmptyDict)
        summary == Get(aggregates, "summary", EmptyDict)
        stats == IF stats_arg = None
                 THEN [mapped |-> 100, scripts |-> 100, tests_count |-> 10]
                 ELSE stats_arg[1]
        p0_open == Get(Get(sev, "critical", EmptyDict), "open", 0)
        p0_found == Get(Get(sev, "critical", EmptyDict), "found", 0)
        p0_fixed == Get(Get(sev, "critical", EmptyDict), "fixed", 0)
        p1_open == Get(Get(sev, "high", EmptyDict), "open", 0)
        p1_found == Get(Get(sev, "high", EmptyDict), "found", 0)
        p1_fixed == Get(Get(sev, "high", EmptyDict), "fixed", 0)
        p2_open == Get(Get(sev, "medium", EmptyDict), "open", 0)
        p3_open == Get(Get(sev, "low", EmptyDict), "open", 0)
        bugs_total == Get(summary, "total_found", 0)
        bugs_fixed == Get(summary, "total_fixed", 0)
        mapped == Get(stats, "mapped", 0)
        total_files == Get(stats, "scripts", 1)
        tests_count == Get(stats, "tests_count", 0)
        sev_p0 == SeverityTier(cfg.p0_max, cfg.p0_k, p0_open)
        sev_p1 == SeverityTier(cfg.p1_max, cfg.p1_k, p1_open)
        sev_p2 == SeverityTier(cfg.p2_max, cfg.p2_k, p2_open)
        sev_p3 == SeverityTier(cfg.p3_max, cfg.p3_k, p3_open)
        severity_penalty == SeverityPenalty(cfg, sev_p0, sev_p1, sev_p2, sev_p3)
        doc_coverage == DocCoverage(mapped, total_files)
        doc_penalty == DocPenalty(cfg, doc_coverage)
        staleness_penalty == StalenessPenalty(cfg)
        tier_a_penalty == TierAPenalty(cfg)
        test_penalty == TestPenalty(cfg, tests_count, total_files)
        fix_pct_bayes == FixPctBayes(cfg, bugs_total, bugs_fixed)
        resolve_penalty == ResolvePenalty(cfg, fix_pct_bayes)
        persistence_penalty == PersistencePenalty
        hotspot_penalty == HotspotPenalty(cfg, fingerprints)
        avg_recurrence == AvgRecurrence(fingerprints)
        recurrence_penalty == RecurrencePenalty(cfg, avg_recurrence)
        fix_ratio_bonus == FixRatioBonus(cfg, bugs_total, bugs_fixed)
        raw_penalty == severity_penalty + doc_penalty + staleness_penalty
                         + tier_a_penalty + test_penalty + resolve_penalty
                         + persistence_penalty + hotspot_penalty + recurrence_penalty
        total_penalty == TotalPenalty(raw_penalty, fix_ratio_bonus)
        score == ClampScore(DecayScore(total_penalty, cfg.K))
        raises == CalculateRaises(cfg, bugs_total, bugs_fixed)
    IN  IF raises # "none" THEN [raised |-> raises] ELSE
        [score |-> score,
         penalty_breakdown |->
            [severity |-> Round1(severity_penalty),
             sev_components |-> [p0 |-> Round2(sev_p0), p1 |-> Round2(sev_p1),
                                 p2 |-> Round2(sev_p2), p3 |-> Round2(sev_p3)],
             doc_coverage |-> Round1(doc_penalty),
             staleness |-> Round1(staleness_penalty),
             tier_a_unmapped |-> Round1(tier_a_penalty),
             test_coverage |-> Round1(test_penalty),
             bug_resolution |-> Round1(resolve_penalty),
             persistence |-> Round1(persistence_penalty),
             hotspot_risk |-> Round1(hotspot_penalty),
             recurrence |-> Round1(recurrence_penalty),
             fix_ratio_bonus |-> Round1(fix_ratio_bonus),
             raw_total |-> Round1(raw_penalty),
             total |-> Round1(total_penalty)],
         inputs |->
            [p0_open |-> p0_open, p0_found |-> p0_found, p0_fixed |-> p0_fixed,
             p1_open |-> p1_open, p1_found |-> p1_found, p1_fixed |-> p1_fixed,
             p2_open |-> p2_open, p3_open |-> p3_open,
             bugs_total |-> bugs_total, bugs_fixed |-> bugs_fixed,
             doc_coverage_pct |-> Round1(100 * doc_coverage),
             fix_pct_bayes |-> Round1(100 * fix_pct_bayes),
             avg_recurrence |-> Round3(avg_recurrence),
             critical_status |-> CriticalStatus(p0_open, p0_found, p0_fixed)],
         config |-> [K |-> cfg.K, formula_version |-> "v1.0.0",
                     fix_ratio_bonus_enabled |-> cfg.fix_ratio_bonus_enabled],
         locals |->
            [severity_penalty |-> severity_penalty, doc_penalty |-> doc_penalty,
             staleness_penalty |-> staleness_penalty, tier_a_penalty |-> tier_a_penalty,
             test_penalty |-> test_penalty, resolve_penalty |-> resolve_penalty,
             persistence_penalty |-> persistence_penalty,
             hotspot_penalty |-> hotspot_penalty,
             recurrence_penalty |-> recurrence_penalty,
             fix_ratio_bonus |-> fix_ratio_bonus,
             raw_penalty |-> raw_penalty, total_penalty |-> total_penalty,
             doc_coverage |-> doc_coverage]]

\* ------------------------------------------------------------------------
\* calculate_confidence.py: the legacy calculator
\* ------------------------------------------------------------------------

\* K = 45
K == 45

\* EMA_WEIGHT = 0.7
EMA_WEIGHT == (7 * FP) \div 10

\* 8. base_score = 100 * math.exp(-total_penalty / K)
BaseScore(total_penalty) == 100 * ExpNeg(DivFx(total_penalty, K * FP))

\* EmaSmooth with the previous score unweighted.
EmaSmoothUnweighted(base_score, previous_score) ==
    IF previous_score # None
    THEN MulFx(EMA_WEIGHT, base_score) + previous_score[1]
    ELSE base_score

\* EmaSmooth that returns the previous score when there is one.
EmaSmoothKeepsPrevious(base_score, previous_score) ==
    IF previous_score # None THEN previous_score[1] ELSE base_score

\* 9. EMA smoothing: previous_score is an Optional float.
EmaSmooth(base_score, previous_score) ==
    IF previous_score # None
    THEN MulFx(EMA_WEIGHT, base_score) + MulFx(FP - EMA_WEIGHT, previous_score[1])
    ELSE base_score

\* ReleaseGates whose can_ship forgets the P0 gate.
ReleaseGatesNoP0(sev_p0, tier_a_unmapped, avg_staleness, final_score) ==
    [p0_zero |-> (sev_p0 = 0),
     tier_a_mapped |-> (tier_a_unmapped = 0),
     staleness_ok |-> (avg_staleness < 21 * FP),
     score_ok |-> (final_score >= 70 * FP),
     can_ship |-> (tier_a_unmapped = 0)]

\* ReleaseGates whose can_ship also asks for score_ok and staleness_ok.
ReleaseGatesAllGates(sev_p0, tier_a_unmapped, avg_staleness, final_score) ==
    [p0_zero |-> (sev_p0 = 0),
     tier_a_mapped |-> (tier_a_unmapped = 0),
     staleness_ok |-> (avg_staleness < 21 * FP),
     score_ok |-> (final_score >= 70 * FP),
     can_ship |-> (sev_p0 = 0 /\ tier_a_unmapped = 0
                   /\ avg_staleness < 21 * FP /\ final_score >= 70 * FP)]

\* ReleaseGates whose score_ok looks at the rounded score that is returned.
ReleaseGatesRoundedScore(sev_p0, tier_a_unmapped, avg_staleness, final_score) ==
    [p0_zero |-> (sev_p0 = 0),
     tier_a_mapped |-> (tier_a_unmapped = 0),
     staleness_ok |-> (avg_staleness < 21 * FP),
     score_ok |-> (Round0(final_score) >= 70 * FP),
     can_ship |-> (sev_p0 = 0 /\ tier_a_unmapped = 0)]

\* The 'release_gates' dictionary of the result.
ReleaseGates(sev_p0, tier_a_unmapped, avg_staleness, final_score) ==
    [p0_zero |-> (sev_p0 = 0),
     tier_a_mapped |-> (tier_a_unmapped = 0),
     staleness_ok |-> (avg_staleness < 21 * FP),
     score_ok |-> (final_score >= 70 * FP),
     can_ship |-> (sev_p0 = 0 /\ tier_a_unmapped = 0)]

\* severity_penalty with a P0 bug weighing what a P1 bug weighs.
severity_penalty_p0_as_p1(sev_p0, sev_p1, sev_p2, sev_p3) ==
    Min2(3 * sev_p0 * FP + 3 * sev_p1 * FP + 1 * sev_p2 * FP
           + RDiv(5 * sev_p3 * FP, 100),
         40 * FP)

\* severity_penalty = min(10*p0 + 3*p1 + 1*p2 + 0.05*p3, 40.0)
severity_penalty(sev_p0, sev_p1, sev_p2, sev_p3) ==
    Min2(10 * sev_p0 * FP + 3 * sev_p1 * FP + 1 * sev_p2 * FP
           + RDiv(5 * sev_p3 * FP, 100),
         40 * FP)

\* calculate_confidence(metrics, previous_score).  metrics is a dictionary
\* of integer counts, but for avg_staleness and bug_resolve_pct, which are
\* floats (grid values); previous_score is an Optional float.  The unrounded
\* locals are returned under "locals".
calculate_confidence(metrics, previous_score) ==
    LET sev_p0 == Get(metrics, "sev_p0", 0)
        sev_p1 == Get(metrics, "sev_p1", 0)
        sev_p2 == Get(metrics, "sev_p2", 0)
        sev_p3 == Get(metrics, "sev_p3", 0)
        severity == severity_penalty(sev_p0, sev_p1, sev_p2, sev_p3)
        mapped == Get(metrics, "mapped", 0)
        unmapped == Get(metrics, "unmapped", 0)
        total_files == mapped + unmapped
        doc_coverage == DivFx(mapped, Max2(total_files, 1))
        doc_penalty ==
            Max2(0, Min2(10 * FP, (((9 * FP) \div 10 - doc_coverage) * 222) \div 10))
        stale_count == Get(metrics, "stale_count", 0)
        avg_staleness == Get(metrics, "avg_staleness", 0)
        tier_a_stale == Get(metrics, "tierA_stale_count", 0)
        stale_count_penalty == Min2((stale_count * FP) \div 2, 6 * FP)
        avg_stale_penalty == Min2(RDiv(avg_staleness, 15), 6 * FP)
        tier_a_stale_penalty == Min2(tier_a_stale * FP, 6 * FP)
        staleness_penalty ==
            Min2(stale_count_penalty + avg_stale_penalty + tier_a_stale_penalty, 15 * FP)
        tier_a_unmapped == Get(metrics, "tierA_unmapped", 0)
        tier_a_unmapped_penalty == Min2(tier_a_unmapped * 2 * FP, 10 * FP)
        scripts == Get(metrics, "scripts", 1)
        tests_count == Get(metrics, "tests_count", 0)
        tests_per_100 == DivFx(tests_count, Max2(scripts, 1)) * 100
        test_penalty ==
            Max2(0, Min2(6 * FP, ((5 * FP - tests_per_100) * 15) \div 10))
        resolve_pct == Get(metrics, "bug_resolve_pct", FP)
        resolve_penalty ==
            Max2(0, Min2(5 * FP, ((7 * FP) \div 10 - resolve_pct) * 10))
        total_penalty == severity + doc_penalty + staleness_penalty
                           + tier_a_unmapped_penalty + test_penalty + resolve_penalty
        base_score == BaseScore(total_penalty)
        final_score == EmaSmooth(base_score, previous_score)
    IN  [score |-> Round0(final_score),
         base_score |-> Round0(base_score),
         doc_coverage_pct |-> Round1(doc_coverage * 100),
         bug_resolve_pct |-> Round1(resolve_pct * 100),
         penalty_breakdown |->
            [severity |-> Round1(severity),
             doc_coverage |-> Round1(doc_penalty),
             staleness |-> Round1(staleness_penalty),
             tierA_unmapped |-> Round1(tier_a_unmapped_penalty),
             test_coverage |-> Round1(test_penalty),
             resolve |-> Round1(resolve_penalty),
             total |-> Round1(total_penalty)],
         raw_metrics |->
            [sev_p0 |-> sev_p0, sev_p1 |-> sev_p1, sev_p2 |-> sev_p2, sev_p3 |-> sev_p3,
             mapped |-> mapped, unmapped |-> unmapped, stale_count |-> stale_count,
             avg_staleness |-> Round1(avg_staleness),
             tierA_stale_count |-> tier_a_stale, tierA_unmapped |-> tier_a_unmapped,
             scripts |-> scripts, tests_count |-> tests_count],
         release_gates |->
            ReleaseGates(sev_p0, tier_a_unmapped, avg_staleness, final_score),
         locals |-> [total_penalty |-> total_penalty, base_score |-> base_score,
                     final_score |-> final_score]]

\* ------------------------------------------------------------------------
\* Inputs
\* ------------------------------------------------------------------------

\* Open counts run over 0..MaxOpen: the critical tier of the engine, sev_p1
\* and sev_p2 of the legacy calculator.
MaxOpen == 1

\* A count so large that every saturating curve has reached its maximum.
LargeOpen == 1000

\* The longest hotspot list: MaxHotspots hotspots of high risk.
MaxHotspots == 7

\* A configuration file holding the document {"confidence_formula": formula}.
ConfigFile(formula) ==
    [exists |-> TRUE, parses |-> TRUE,
     data |-> JObject([confidence_formula |-> JObject(formula)])]

\* The configuration files a calculator is constructed from: no path, a path
\* to no file, an unparsable file, an empty document, a document that
\* disables the fix ratio bonus, one that sets the doc coverage target to 2
\* and whose next section is a list, one that only sets that target, one
\* that sets the bonus threshold to 1.
ConfigPaths ==
    {None,
     Some([exists |-> FALSE, parses |-> FALSE, data |-> JOther]),
     Some([exists |-> TRUE, parses |-> FALSE, data |-> JOther]),
     Some([exists |-> TRUE, parses |-> TRUE, data |-> JObject(EmptyDict)]),
     Some(ConfigFile([fix_ratio_bonus |-> JObject([enabled |-> FALSE])])),
     Some(ConfigFile([thresholds |-> JObject([doc_coverage_target |-> 2 * FP]),
                      bayesian_priors |-> JOther])),
     Some(ConfigFile([thresholds |-> JObject([doc_coverage_target |-> 2 * FP])])),
     Some(ConfigFile([fix_ratio_bonus |-> JObject([threshold |-> FP])]))}

\* One tier of aggregates["severity"] with `open` open bugs, none fixed.
Tier(open) == [open |-> open, found |-> open, fixed |-> 0]

\* aggregates["severity"]: critical over 0..MaxOpen with high, medium and low
\* over {0, 1}, every tier over {0, LargeOpen}, and two with no critical
\* bug open (all fixed, one lost).
Severities ==
    {[critical |-> Tier(a), high |-> Tier(b), medium |-> Tier(c), low |-> Tier(d)] :
        a \in 0..MaxOpen, b \in {0, 1}, c \in {0, 1}, d \in {0, 1}}
    \cup
    {[critical |-> Tier(a), high |-> Tier(b), medium |-> Tier(c), low |-> Tier(d)] :
        a \in {0, LargeOpen}, b \in {0, LargeOpen},
        c \in {0, LargeOpen}, d \in {0, LargeOpen}}
    \cup
    {[critical |-> [open |-> 0, found |-> 2, fixed |-> f], high |-> Tier(1),
      medium |-> Tier(1), low |-> Tier(0)] : f \in {1, 2}}

\* aggregates["summary"]: below, at and above the bonus's minimum sample of 10.
Summaries ==
    {[total_found |-> 0, total_fixed |-> 0],
     [total_found |-> 2, total_fixed |-> 2],
     [total_found |-> 10, total_fixed |-> 10],
     [total_found |-> 11, total_fixed |-> 11],
     [total_found |-> 11, total_fixed |-> 12],
     [total_found |-> 20, total_fixed |-> 0],
     [total_found |-> 92, total_fixed |-> 90]}

\* The aggregates argument; the empty dictionary has no tier and no summary.
Aggregates ==
    {[severity |-> sv, summary |-> sm] : sv \in Severities, sm \in Summaries}
    \cup {EmptyDict}

\* The stats argument.
Stats ==
    {None, Some(EmptyDict),
     Some([mapped |-> 200, scripts |-> 200, tests_count |-> 55]),
     Some([mapped |-> 50, scripts |-> 100, tests_count |-> 0]),
     Some([mapped |-> 90, scripts |-> 100, tests_count |-> 29]),
     Some([mapped |-> 120, scripts |-> 100, tests_count |-> 30]),
     Some([mapped |-> 0, scripts |-> 0, tests_count |-> 0])}

\* The fingerprints argument.
Fingerprints ==
    {None, Some(EmptyDict),
     Some([hotspots |-> <<>>]),
     Some([hotspots |-> <<[risk |-> "high", bug_recurrence |-> 3]>>]),
     Some([hotspots |-> <<[risk |-> "medium", bug_recurrence |-> 1],
                          [risk |-> "low", bug_recurrence |-> 0]>>]),
     Some([hotspots |-> <<EmptyDict, [risk |-> "medium"]>>]),
     Some([hotspots |-> [i \in 1..MaxHotspots |-> [risk |-> "high", bug_recurrence |-> 0]]])}

\* The metrics argument of calculate_confidence.
Metrics ==
    {[sev_p0 |-> p0, sev_p1 |-> p1, sev_p2 |-> p2, sev_p3 |-> p3,
      mapped |-> d[1], unmapped |-> d[2],
      stale_count |-> st[1], avg_staleness |-> st[2] * FP, tierA_stale_count |-> st[3],
      tierA_unmapped |-> ta, scripts |-> 100, tests_count |-> t,
      bug_resolve_pct |-> r] :
        p0 \in {0, 1, 5}, p1 \in (0..MaxOpen) \cup {14}, p2 \in 0..MaxOpen,
        p3 \in {0, 2},
        d \in {<<100, 0>>, <<50, 50>>, <<0, 0>>},
        st \in {<<0, 0, 0>>, <<0, 21, 0>>, <<5, 30, 2>>},
        ta \in {0, 1}, t \in {100, 0},
        r \in {FP, FP \div 2}}
    \cup {EmptyDict}

\* The previous_score argument: none, whole scores, and one with decimals
\* (91.9).
PreviousScores ==
    {None, Some(0), Some(50 * FP), Some(100 * FP), Some((919 * FP) \div 10)}

\* ------------------------------------------------------------------------
\* core/config.py: LDFConfig and the cached module-level instance
\* ------------------------------------------------------------------------

\* The directories of the file system and Path.parent (the root is its own
\* parent).
Dirs == {"/", "/work", "/work/app", "/bare", "/blank"}

Parent(d) ==
    CASE d = "/work/app" -> "/work"
      [] OTHER -> "/"

\* No file of that name.
Absent == [absent |-> TRUE]

\* The living-doc-config.yaml of a directory, as what yaml.safe_load
\* returns for it (doc): a dictionary, None for an empty file; Absent
\* without the file.
\* /work holds a full document, /work/app one with a project name only,
\* /blank an empty file, / and /bare hold none.
YamlFile(d) ==
    CASE d = "/work" ->
            [doc |-> Some([project |-> [name |-> "Work", language |-> "javascript",
                                        main_branch |-> "develop"],
                           code |-> [root |-> "lib/", extensions |-> <<"js", "ts">>]])]
      [] d = "/work/app" -> [doc |-> Some([project |-> [name |-> "App"]])]
      [] d = "/blank" -> [doc |-> None]
      [] OTHER -> Absent

\* (dir / "living-doc-config.yaml").exists()
Exists(d) == YamlFile(d) # Absent

\* The language profile <project_root>/LivingDocFramework/core/languages/
\* <language>.yaml, or the one next to config.py: only /work ships one, for
\* javascript.
LanguageProfile(project_root, language) ==
    IF project_root = "/work" /\ language = "javascript"
    THEN [comment_style |-> "//"]
    ELSE EmptyDict

\* The config_path argument: None or the path of a file, as its directory
\* and its name.
LDFConfigPaths ==
    {None} \cup {Some([dir |-> d, name |-> "living-doc-config.yaml"]) : d \in Dirs}
           \cup {Some([dir |-> "/work", name |-> "other.yaml"])}

\* LDFConfig._find_project_root: the directory of config_path, else the
\* first directory from the working directory upwards, the root excluded,
\* that holds the file, else the working directory.
RECURSIVE SearchUpwards(_, _)
SearchUpwards(current, cwd) ==
    IF current = Parent(current)
    THEN cwd
    ELSE IF Exists(current) THEN current ELSE SearchUpwards(Parent(current), cwd)

_find_project_root(config_path, cwd) ==
    IF config_path # None THEN config_path[1].dir ELSE SearchUpwards(cwd, cwd)

\* The defaults of LDFConfig._load_config.
LDFDefaults ==
    [project |-> [name |-> "MyProject", language |-> "python", main_branch |-> "main"],
     version |-> [file |-> "__init__.py", pattern |-> "__version__\\s*=\\s*\"([0-9.]+)\""],
     code |-> [root |-> "src/", extensions |-> <<"py">>],
     tests |-> [pattern |-> "**/test_*.py", extensions |-> <<"py">>]]

\* LDFConfig._load_config: the defaults without the file, else what
\* yaml.safe_load returns (None for an empty file).
LDFLoadConfig(project_root) ==
    IF ~Exists(project_root) THEN Some(LDFDefaults) ELSE YamlFile(project_root).doc

\* LDFConfig(config_path) run in the working directory cwd, as the object
\* number id: self.config.get of _load_language_profile raises
\* AttributeError when the file is empty.
LDFConfig(config_path, cwd, id) ==
    LET project_root == _find_project_root(config_path, cwd)
        loaded == LDFLoadConfig(project_root)
    IN  IF loaded = None
        THEN [raised |-> "AttributeError"]
        ELSE LET language == Get(Get(loaded[1], "project", EmptyDict), "language", "python")
             IN  [id |-> id, project_root |-> project_root, config |-> loaded[1],
                  language_profile |-> LanguageProfile(project_root, language)]

\* The properties of an LDFConfig.
language(self) == Get(Get(self.config, "project", EmptyDict), "language", "python")

main_branch(self) == Get(Get(self.config, "project", EmptyDict), "main_branch", "main")

code_root(self) == Get(Get(self.config, "code", EmptyDict), "root", "src/")

code_extensions(self) == Get(Get(self.config, "code", EmptyDict), "extensions", <<"py">>)

\* The most LDFConfig objects constructed in a run.
MaxInstances == 3

\* The results the caller keeps in its variables: the last MaxReturned.
MaxReturned == 2

\* ------------------------------------------------------------------------
\* tools/devmemory/session_memory.py: SessionMemory
\* ------------------------------------------------------------------------

\* A timestamp string datetime.utcnow().isoformat() + "Z", as the hour it
\* names; the other strings a stored last_update can be.
Timestamp(hour) == [iso |-> hour]

EmptyText == [text |-> ""]

NotATimestamp == [text |-> "yesterday"]

\* A file that json.loads cannot parse.
Unparsable == [text |-> "{"]

\* d[k] = v on a dictionary.
Put(d, k, v) == [x \in DOMAIN d \cup {k} |-> IF x = k THEN v ELSE d[x]]

\* `if self._session_data:` - neither None nor an empty dictionary.
Truthy(data) == data # None /\ DOMAIN data[1] # {}

\* SessionMemory._load_current: the parsed current_session.json, None
\* without the file or when it cannot be parsed.
_load_current(session_file) ==
    IF "doc" \in DOMAIN session_file THEN Some(session_file.doc) ELSE None

\* SessionMemory._generate_session_id: "S-" and twelve hex digits of the md5
\* of the timestamp and id(self), for the one SessionMemory object; distinct
\* timestamps give distinct ids.
_generate_session_id(timestamp) == [md5_of |-> timestamp]

\* SessionMemory.save at the hour t: the session data with its last_update
\* set, and current_session.json holding it; nothing without session data.
save(data, session_file, t) ==
    IF Truthy(data)
    THEN LET saved == Put(data[1], "last_update", Timestamp(t))
         IN  [data |-> Some(saved), session_file |-> [doc |-> saved]]
    ELSE [data |-> data, session_file |-> session_file]

\* The sessions session_history.json keeps.
HistoryKeep == 50

\* history[-50:]
LastSessions(history) ==
    IF Len(history) > HistoryKeep
    THEN SubSeq(history, Len(history) - HistoryKeep + 1, Len(history))
    ELSE history

\* _archive_session writing the session alone, without the history read.
_archive_session_alone(data, history_file) ==
    IF ~Truthy(data) THEN history_file ELSE [doc |-> <<data[1]>>]

\* SessionMemory._archive_session: the parsed history, empty without the
\* file or when it cannot be parsed, with the session appended; the last 50
\* are written.
_archive_session(data, history_file) ==
    IF ~Truthy(data)
    THEN history_file
    ELSE LET history == IF "doc" \in DOMAIN history_file
                        THEN history_file.doc ELSE <<>>
         IN  [doc |-> LastSessions(Append(history, data[1]))]

\* The test of lines 111-117 at the hour t: there is session data, its
\* last_update is not empty, is a timestamp, and is less than 4 hours ago.
Resumes(data, t) ==
    LET last_update == IF Truthy(data)
                       THEN Get(data[1], "last_update", EmptyText) ELSE EmptyText
    IN  /\ Truthy(data)
        /\ last_update # EmptyText
        /\ "iso" \in DOMAIN last_update
        /\ t - last_update.iso < 4

\* SessionMemory.start(version, confidence=confidence) at the hour t, branch
\* and the bug counts left at their defaults: the session data and the two
\* files after the call, and the id returned.
start(data, session_file, history_file, t, version, confidence) ==
    IF Resumes(data, t)
        THEN LET counted == Put(data[1], "resumed_count",
                                Get(data[1], "resumed_count", 0) + 1)
                 touched == Put(counted, "last_update", Timestamp(t))
                 versioned == IF version # None
                              THEN Put(touched, "version_current", version)
                              ELSE touched
                 scored == IF confidence # None
                           THEN Put(versioned, "confidence_current", confidence)
                           ELSE versioned
                 saved == save(Some(scored), session_file, t)
             IN  [data |-> saved.data, session_file |-> saved.session_file,
                  history_file |-> history_file,
                  returned |-> saved.data[1].session_id]
        ELSE LET session_id == _generate_session_id(t)
                 created == [session_id |-> session_id,
                             started_at |-> Timestamp(t),
                             last_update |-> Timestamp(t),
                             resumed_count |-> 0,
                             version_start |-> version,
                             version_current |-> version,
                             branch |-> None,
                             bugs_open_start |-> 0,
                             bugs_open_current |-> 0,
                             bugs_total |-> 0,
                             confidence_start |-> confidence,
                             confidence_current |-> confidence,
                             files_modified |-> <<>>,
                             agents_spawned |-> <<>>,
                             events_count |-> 0]
                 saved == save(Some(created), session_file, t)
             IN  [data |-> saved.data, session_file |-> saved.session_file,
                  history_file |-> _archive_session(data, history_file),
                  returned |-> session_id]

\* The last hour of the clock.
MaxClock == 8

\* The most times a session is resumed.
MaxResumes == 2

\* A session an earlier run has left in current_session.json: started
\* twenty hours before the clock starts, last updated as given.
StoredSession(last_update) ==
    [session_id |-> _generate_session_id(0 - 20), started_at |-> Timestamp(0 - 20),
     last_update |-> last_update, resumed_count |-> 1,
     version_start |-> Some("1.0"), version_current |-> Some("1.0"),
     branch |-> None, bugs_open_start |-> 0, bugs_open_current |-> 0,
     bugs_total |-> 0, confidence_start |-> None, confidence_current |-> None,
     files_modified |-> <<>>, agents_spawned |-> <<>>, events_count |-> 0]

\* The storage directories a SessionMemory is opened on: current_session.json
\* and session_history.json absent, unparsable, or left by earlier runs (a
\* session last updated at the hour 1, one whose last_update is empty, is no
\* timestamp or is missing together with resumed_count, an empty
\* dictionary).
StorageDirs ==
    {[session_file |-> Absent, history_file |-> Absent],
     [session_file |-> Unparsable, history_file |-> Unparsable],
     [session_file |-> [doc |-> EmptyDict], history_file |-> Absent],
     [session_file |-> [doc |-> StoredSession(Timestamp(1))],
      history_file |-> [doc |-> <<[session_id |-> _generate_session_id(0 - 40),
                                   resumed_count |-> 0]>>]],
     [session_file |-> [doc |-> StoredSession(EmptyText)], history_file |-> Absent],
     [session_file |-> [doc |-> StoredSession(NotATimestamp)],
      history_file |-> Unparsable],
     [session_file |-> [doc |-> [session_id |-> _generate_session_id(0 - 30)]],
      history_file |-> Absent],
     [session_file |-> [doc |-> [session_id |-> _generate_session_id(0 - 30),
                                 last_update |-> Timestamp(1)]],
      history_file |-> Absent]}

\* The paths files_modified keeps.
FilesKeep == 100

\* add_file_modified that keeps every path.
add_file_modified_all(data, file_path) ==
    IF Truthy(data)
    THEN LET files == Get(data[1], "files_modified", <<>>)
         IN  IF \A i \in DOMAIN files : files[i] # file_path
             THEN Some(Put(data[1], "files_modified", Append(files, file_path)))
             ELSE data
    ELSE data

\* SessionMemory.add_file_modified: the session data afterwards.  A path not
\* yet in files_modified is appended and the last 100 are kept.
add_file_modified(data, file_path) ==
    IF Truthy(data)
    THEN LET files == Get(data[1], "files_modified", <<>>)
             all == Append(files, file_path)
         IN  IF \A i \in DOMAIN files : files[i] # file_path
             THEN Some(Put(data[1], "files_modified",
                           IF Len(all) > FilesKeep
                           THEN SubSeq(all, Len(all) - FilesKeep + 1, Len(all))
                           ELSE all))
             ELSE data
    ELSE data

\* The agents agents_spawned keeps.
AgentsKeep == 20

\* SessionMemory.add_agent_spawned(fingerprint, agent_type) at the hour t,
\* status, findings and compliance_score at their defaults: the session data
\* afterwards, with the agent appended and the last 20 kept.
add_agent_spawned(data, fingerprint, agent_type, t) ==
    IF Truthy(data)
    THEN LET all == Append(Get(data[1], "agents_spawned", <<>>),
                           [fingerprint |-> fingerprint, type |-> agent_type,
                            status |-> "running", findings |-> 0,
                            compliance_score |-> 0, timestamp |-> Timestamp(t)])
         IN  Some(Put(data[1], "agents_spawned",
                      IF Len(all) > AgentsKeep
                      THEN SubSeq(all, Len(all) - AgentsKeep + 1, Len(all))
                      ELSE all))
    ELSE data

\* A storage directory earlier runs have filled: the session last updated
\* an hour before the clock starts holds 100 modified files (the paths
\* 1..100) and 20 agents, and the history holds 50 sessions.
FullDir ==
    [session_file |->
        [doc |-> [StoredSession(Timestamp(0 - 1)) EXCEPT
                    !.files_modified = [i \in 1..FilesKeep |-> i],
                    !.agents_spawned =
                        [i \in 1..AgentsKeep |->
                            [fingerprint |-> i, type |-> "review",
                             status |-> "running", findings |-> 0,
                             compliance_score |-> 0,
                             timestamp |-> Timestamp(0 - 2)]]]],
     history_file |->
        [doc |-> [i \in 1..HistoryKeep |->
                    [session_id |-> _generate_session_id(i - 100),
                     resumed_count |-> 0]]]]

\* ------------------------------------------------------------------------
\* tools/devmemory/event_stream.py: the EventStream on events.jsonl
\* ------------------------------------------------------------------------

\* EventStream._generate_event_id at the clock reading t: "E-" and eight hex
\* digits of the md5 of the event type, the timestamp and id(self), for the
\* one EventStream object.  Equal types at equal clock readings give equal
\* ids.
_generate_event_id(event_type, t) == [md5_of |-> <<event_type, t>>]

\* EventStream.emit(event_type, data, summary) at the clock reading t,
\* severity and parent_id at their defaults: events.jsonl with the event
\* appended, and the event id returned.  An event type that is queried is
\* the sequence of its characters.
emit(file, event_type, data, summary, t) ==
    LET event_id == _generate_event_id(event_type, t)
    IN  [events |-> Append(file, [id |-> event_id, type |-> event_type,
                                  timestamp |-> Timestamp(t), severity |-> "info",
                                  summary |-> summary, data |-> data]),
         returned |-> event_id]

\* EventStream.query(event_type, since, limit) on the events of
\* events.jsonl: event_type is None, a type, or a prefix ending in "*";
\* since is None or a timestamp; the result is events[-limit:], which for
\* limit = 0 is events[0:].
query(file, event_type, since, limit) ==
    LET Passes(event) ==
            /\ event_type # None =>
                 LET pattern == event_type[1]
                 IN  IF pattern[Len(pattern)] = "*"
                     THEN /\ Len(event.type) >= Len(pattern) - 1
                          /\ SubSeq(event.type, 1, Len(pattern) - 1)
                               = SubSeq(pattern, 1, Len(pattern) - 1)
                     ELSE event.type = pattern
            /\ since # None => ~(event.timestamp.iso < since[1].iso)
        selected == SelectSeq(file, Passes)
    IN  IF limit > 0 /\ limit < Len(selected)
        THEN SubSeq(selected, Len(selected) - limit + 1, Len(selected))
        ELSE selected

\* EventStream.get_event(event_id): the first event of events.jsonl with the
\* id, None when there is none.
get_event(file, event_id) ==
    IF \E i \in DOMAIN file : file[i].id = event_id
    THEN Some(file[CHOOSE i \in DOMAIN file :
                     /\ file[i].id = event_id
                     /\ \A j \in 1..(i - 1) : file[j].id # event_id])
    ELSE None

\* The events emitted to events.jsonl, at most.
MaxEvents == 3

\* ------------------------------------------------------------------------
\* tools/devmemory/wiring.py: the hooks on the SessionMemory and the stream
\* ------------------------------------------------------------------------

\* SessionMemory.get_last_session_summary: the summary of the last session
\* of session_history.json; None without the file, when it cannot be parsed
\* or when it holds no session.
get_last_session_summary(history_file) ==
    IF "doc" \in DOMAIN history_file /\ history_file.doc # <<>>
    THEN LET last == history_file.doc[Len(history_file.doc)]
         IN  Some([session_id |-> Get(last, "session_id", None),
                   version |-> Get(last, "version_current", None),
                   confidence |-> Get(last, "confidence_current", None),
                   bugs_open |-> Get(last, "bugs_open_current", 0),
                   files_modified |-> Len(Get(last, "files_modified", <<>>)),
                   ended_at |-> Get(last, "last_update", None)])
    ELSE None

\* wire_session_start(version) at the hour t, outside a git repository (no
\* branch is detected); version is what is passed or detected in
\* CHANGELOG.md.  A SessionMemory is constructed on the storage directory,
\* the last session is read from the history, the session is started or
\* resumed, and the event is emitted: 'session.start' without a last
\* session, 'session.resume' with one.
wire_session_start(session_file, history_file, file, t, version) ==
    LET session == _load_current(session_file)
        last_session == get_last_session_summary(history_file)
        started == start(session, session_file, history_file, t, version, None)
        emitted == emit(file,
                        IF last_session = None
                        THEN "session.start" ELSE "session.resume",
                        [session_id |-> started.returned,
                         previous_session |-> IF last_session # None
                                              THEN last_session[1].session_id
                                              ELSE None,
                         version |-> version, branch |-> None],
                        [text |-> IF last_session = None
                                  THEN "Session started" ELSE "Session resumed",
                         session_id |-> started.returned],
                        t)
    IN  [data |-> started.data, session_file |-> started.session_file,
         history_file |-> started.history_file, events |-> emitted.events,
         returned |->
            [previous_session |-> last_session,
             current_session_id |-> started.returned,
             inherited_context |->
                IF last_session # None
                THEN [last_version |-> last_session[1].version,
                      last_confidence |-> last_session[1].confidence,
                      last_bugs_open |-> last_session[1].bugs_open]
                ELSE EmptyDict]]

\* wire_version_change(old_version, new_version) at the hour t: a
\* SessionMemory is constructed on the storage directory; when it holds
\* session data, version_current is set and the session saved; the
\* version.bump event is emitted.
wire_version_change(session_file, file, t, old_version, new_version) ==
    LET session == _load_current(session_file)
        changed == IF session # None
                   THEN Some(Put(session[1], "version_current", Some(new_version)))
                   ELSE session
        emitted == emit(file, "version.bump",
                        [old_version |-> old_version, new_version |-> new_version,
                         commit |-> None],
                        [text |-> "Version bump", old_version |-> old_version,
                         new_version |-> new_version],
                        t)
    IN  [data |-> save(changed, session_file, t).data,
         session_file |-> save(changed, session_file, t).session_file,
         events |-> emitted.events, returned |-> emitted.returned]

\* ------------------------------------------------------------------------
\* tools/github_sync.py: bugs.json and the issues of the GitHub repository
\* ------------------------------------------------------------------------

\* The issues `gh issue list --limit 500` returns, at most.
FetchLimit == 500

\* get_github_issues: what `gh issue list --state all --limit 500` prints
\* for the issues of the repository, the newest first; the empty list when
\* gh fails.  issues[n] is the issue number n.
get_github_issues(repository, success) ==
    IF success
    THEN LET count == IF Len(repository) > FetchLimit
                      THEN FetchLimit ELSE Len(repository)
         IN  [i \in 1..count |-> repository[Len(repository) + 1 - i]]
    ELSE <<>>

\* parse_issue_to_bug for issues with no severity label, no category label
\* and no location line in the body; a body is a text without a
\* false-positive keyword or the text "by design".  The id "GH-<number>" is
\* the prefix and the number.
parse_issue_to_bug(issue) ==
    LET is_false_positive ==
            \/ \E i \in DOMAIN issue.labels : issue.labels[i] = "false-positive"
            \/ issue.state = "CLOSED" /\ issue.body = "by design"
        status ==
            IF is_false_positive THEN "false_positive"
            ELSE IF issue.state = "CLOSED" THEN "fixed"
            ELSE IF \E i \in DOMAIN issue.labels : issue.labels[i] = "investigating"
                 THEN "investigating"
            ELSE "open"
    IN  [id |-> [prefix |-> "GH", n |-> issue.number],
         github_number |-> issue.number, source |-> "github",
         type |-> IF \E i \in DOMAIN issue.labels : issue.labels[i] = "enhancement"
                  THEN "enhancement" ELSE "bug",
         severity |-> "P2", category |-> "general",
         status |-> status, title |-> issue.title,
         file |-> "", line |-> 0, message |-> issue.body,
         first_seen |-> issue.createdAt, labels |-> issue.labels]

\* import_from_github with the issues gh has returned: bugs.json afterwards.
\* Without issues the file is not read.  existing_ids and existing_gh_nums
\* are taken once, before the loop: the first bug with the number of a
\* fetched issue takes the issue's status and labels when its status
\* differs, and every fetched issue whose number and id no bug had is
\* appended.  gh lists the issues by descending number without gaps, so the
\* fetched issue of a number is found by its place.
import_from_github(file, fetched) ==
    IF fetched = <<>>
    THEN file
    ELSE LET data == IF "doc" \in DOMAIN file
                     THEN file.doc ELSE [schema_version |-> 1, bugs |-> <<>>]
             bugs == data.bugs
             existing_ids == {bugs[i].id : i \in DOMAIN bugs}
             numbered == {i \in DOMAIN bugs : Get(bugs[i], "github_number", 0) # 0}
             existing_gh_nums == {bugs[i].github_number : i \in numbered}
             IsFirst(i) ==
                 \/ Cardinality(existing_gh_nums) = Cardinality(numbered)
                 \/ \A j \in 1..(i - 1) :
                       Get(bugs[j], "github_number", 0) # bugs[i].github_number
             Updated(i) ==
                 LET bug == bugs[i]
                     place == fetched[1].number + 1 - Get(bug, "github_number", 0)
                 IN  IF i \in numbered /\ place \in DOMAIN fetched /\ IsFirst(i)
                     THEN LET parsed == parse_issue_to_bug(fetched[place])
                          IN  IF Get(bug, "status", None) # parsed.status
                              THEN Put(Put(bug, "status", parsed.status),
                                       "labels", parsed.labels)
                              ELSE bug
                     ELSE bug
             IsNew(issue) ==
                 /\ issue.number \notin existing_gh_nums
                 /\ [prefix |-> "GH", n |-> issue.number] \notin existing_ids
             imported == SelectSeq(fetched, IsNew)
         IN  [doc |-> Put(data, "bugs",
                          [i \in DOMAIN bugs |-> Updated(i)]
                             \o [k \in DOMAIN imported |->
                                    parse_issue_to_bug(imported[k])])]

\* export_to_github: bugs.json and the repository afterwards.  The bugs
\* with no github_number whose id does not start with "GH-" are submitted;
\* outcome[n] is what `gh issue create` does for the bug BUG-n: "failed" (no
\* issue, gh reports failure), "url" (the issue is created and its URL
\* printed) or "no_url" (the issue is created, the output holds no
\* "/issues/").
export_to_github(file, repository, outcome) ==
    LET data == IF "doc" \in DOMAIN file
                THEN file.doc ELSE [schema_version |-> 1, bugs |-> <<>>]
        bugs == data.bugs
        created == {i \in DOMAIN bugs :
                      /\ Get(bugs[i], "github_number", 0) = 0
                      /\ bugs[i].id.prefix # "GH"
                      /\ outcome[bugs[i].id.n] # "failed"}
        Number(i) == Len(repository) + Cardinality({j \in created : j <= i})
        Index(k) == CHOOSE i \in created : Number(i) = Len(repository) + k
    IN  [bugs_file |->
            [doc |-> Put(data, "bugs",
                [i \in DOMAIN bugs |->
                    IF i \in created /\ outcome[bugs[i].id.n] = "url"
                    THEN Put(Put(bugs[i], "github_number", Number(i)),
                             "synced", TRUE)
                    ELSE bugs[i]])],
         issues |->
            repository \o
            [k \in 1..Cardinality(created) |->
                [number |-> Len(repository) + k,
                 title |-> [bug_id |-> bugs[Index(k)].id,
                            title |-> bugs[Index(k)].title],
                 body |-> "Synced from Living Documentation Framework",
                 labels |-> <<"bug", "P2-medium", "general">>,
                 state |-> "OPEN", createdAt |-> 0]]]

\* The issues filed on the repository beyond those it held at first, and
\* the bugs recorded locally, at most.
MaxIssues == 2

MaxBugs == 1

\* ------------------------------------------------------------------------
\* tools/calculate_confidence.py: main and history.json
\* ------------------------------------------------------------------------

\* get_previous_score: the confidence of the last entry of history.json;
\* None without the file, when it cannot be parsed, when it has no entries,
\* or when the last entry has no confidence.
get_previous_score(file) ==
    IF "doc" \notin DOMAIN file
    THEN None
    ELSE LET history == Get(file.doc, "history", <<>>)
         IN  IF history # <<>>
             THEN Get(history[Len(history)], "confidence", None)
             ELSE None

\* UpdateHistory that appends an entry for the run.
UpdateHistoryAppending(data, calculated) ==
    Put(data, "history",
        Append(Get(data, "history", <<>>),
               [confidence |-> Some(calculated.score), calculated_confidence |-> calculated]))

\* Lines 494-496 of main: when data has a non-empty 'history', its last
\* entry gets the score as 'confidence' and the result as
\* 'calculated_confidence'.
UpdateHistory(data, calculated) ==
    LET history == Get(data, "history", <<>>)
    IN  IF history # <<>>
        THEN Put(data, "history",
                 [history EXCEPT ![Len(history)] =
                     Put(Put(@, "confidence", Some(calculated.score)),
                         "calculated_confidence", calculated)])
        ELSE data

\* main() on the metrics collect_all_metrics gathers, with or without
\* --update, at the hour t: what it prints and history.json afterwards.  An
\* unparsable history.json is reported and left as it is.
main(file, metrics, update_mode, t) ==
    LET previous_score == get_previous_score(file)
        confidence == calculate_confidence(metrics, previous_score)
        calculated == [k \in DOMAIN confidence \cup {"timestamp", "previous_score"} |->
                      CASE k = "timestamp" -> Timestamp(t)
                        [] k = "previous_score" -> previous_score
                        [] OTHER -> confidence[k]]
    IN  [result |-> calculated,
         history_json |->
            IF update_mode /\ "doc" \in DOMAIN file
            THEN [doc |-> UpdateHistory(file.doc, calculated)]
            ELSE file]

\* history.json as its owner leaves it: absent, unparsable, without a
\* 'history', with an empty one, with one or two entries, the last with or
\* without a confidence.
HistoryFiles ==
    {Absent, Unparsable, [doc |-> EmptyDict], [doc |-> [history |-> <<>>]],
     [doc |-> [history |-> <<[version |-> "1.0", confidence |-> Some(50 * FP)]>>]],
     [doc |-> [history |-> <<[version |-> "1.0", confidence |-> Some(100 * FP)],
                             [version |-> "1.1"]>>]]}

\* ------------------------------------------------------------------------
\* The state machine: a calculator is constructed, a caller calls one of the
\* two calculators and takes the result.  The state holds the call in
\* progress and what it returned.
\* ------------------------------------------------------------------------

VARIABLES
    config,   \* self.config of the ConfidenceCalculator
    call,     \* the last call: its function and arguments
    result,   \* what the last call returned
    pending,  \* a second caller's call of calculate that has not returned yet
    _config,  \* the module-level _config of core/config.py
    instances, \* the number of LDFConfig objects constructed so far
    returned, \* the LDFConfig results the caller holds, oldest first
    session_data, \* self._session_data of the SessionMemory
    session_file, \* current_session.json of its storage directory
    history_file, \* session_history.json of its storage directory
    now,      \* the clock datetime.utcnow() reads, in hours
    other_data, \* self._session_data of a second SessionMemory on the directory
    events,   \* the lines of events.jsonl, oldest first
    history_json, \* history.json of the dashboard directory
    bugs_file, \* the local bugs file of github_sync
    issues    \* the issues of the GitHub repository, oldest first

vars == <<config, call, result, pending, _config, instances, returned,
          session_data, session_file, history_file, now,
          other_data, events, history_json, bugs_file, issues>>

\* The state of the other tools: the second SessionMemory, the event
\* stream, the dashboard history, the bugs file and the GitHub repository.
toolVars == <<other_data, events, history_json, bugs_file, issues>>

\* The state of the SessionMemory, of its storage directory and the clock.
sessionVars == <<session_data, session_file, history_file, now>>

\* The state of core/config.py and of its caller.
ldfVars == <<_config, instances, returned>>

\* The state of the calculator.
calcVars == <<config, pending>>

NoCall == [fn |-> "none"]

\* The call ended with an exception instead of a returned value.
Raised(r) == "raised" \in DOMAIN r /\ r.raised # "none"

Init ==
    /\ config = ConfidenceCalculator(None)
    /\ call = NoCall
    /\ result = NoCall
    /\ pending = NoCall
    /\ _config = None
    /\ instances = 0
    /\ returned = <<>>
    /\ session_data = None
    /\ session_file = Absent
    /\ history_file = Absent
    /\ now = 0
    /\ other_data = None
    /\ events = <<>>
    /\ history_json = Absent
    /\ bugs_file = Absent
    /\ issues = <<>>

\* calc = ConfidenceCalculator(config_path)
Construct(config_path) ==
    /\ call' = [fn |-> "__init__", config_path |-> config_path]
    /\ result' = [raised |-> InitRaises(config_path)]
    /\ config' = ConfidenceCalculator(config_path)
    /\ UNCHANGED <<pending, ldfVars, sessionVars, toolVars>>

\* ObjectsAfterCalculate with a write to self.config: the bonus is switched
\* off once a call has run.
ObjectsAfterCalculateBonusSpent(cfg, aggregates, stats, fingerprints) ==
    [config |-> [cfg EXCEPT !.fix_ratio_bonus_enabled = FALSE],
     aggregates |-> aggregates, stats |-> stats, fingerprints |-> fingerprints]

\* The objects a call of calculate was given, as the call leaves them:
\* lines 181-331 assign to local names only (line 186 rebinds the local
\* name stats), never to an attribute of self or to an item of aggregates,
\* stats or fingerprints.
ObjectsAfterCalculate(cfg, aggregates, stats, fingerprints) ==
    [config |-> cfg, aggregates |-> aggregates, stats |-> stats,
     fingerprints |-> fingerprints]

\* result = calc.calculate(aggregates, stats, fingerprints)
Calculate(aggregates, stats, fingerprints) ==
    LET after == ObjectsAfterCalculate(config, aggregates, stats, fingerprints)
    IN  /\ call' = [fn |-> "calculate", aggregates |-> after.aggregates,
                    stats |-> after.stats, fingerprints |-> after.fingerprints]
        /\ result' = calculate(config, aggregates, stats, fingerprints)
        /\ config' = after.config
        /\ UNCHANGED <<pending, ldfVars, sessionVars, toolVars>>

\* result = calculate_confidence(metrics, previous_score)
CalculateConfidence(metrics, previous_score) ==
    /\ call' = [fn |-> "calculate_confidence", metrics |-> metrics,
                previous_score |-> previous_score]
    /\ result' = calculate_confidence(metrics, previous_score)
    /\ UNCHANGED <<config, pending, ldfVars, sessionVars, toolVars>>

\* The caller has taken the result; the next call can be made.  A result of
\* LDFConfig, load_config or get_config is kept in a variable of the caller
\* (config1, config2 of the callers of load_config).
Return ==
    /\ call # NoCall
    /\ call' = NoCall
    /\ result' = NoCall
    /\ returned' =
         IF call.fn \in {"LDFConfig", "load_config", "get_config"}
         THEN LET all == Append(returned, [fn |-> call.fn,
                                           config_path |-> call.config_path,
                                           result |-> result])
              IN  IF Len(all) > MaxReturned THEN Tail(all) ELSE all
         ELSE returned
    /\ UNCHANGED <<config, pending, _config, instances, sessionVars, toolVars>>

\* A second caller enters calc.calculate(aggregates, stats, fingerprints) on
\* the same calculator: `passed` are the objects it passes, `entered` is
\* self.config as it is on entry (line 181, cfg = self.config, is a
\* reference to it).
Enter(aggregates, stats, fingerprints) ==
    /\ pending = NoCall
    /\ pending' = [fn |-> "calculate", phase |-> "entered",
                   passed |-> [aggregates |-> aggregates, stats |-> stats,
                               fingerprints |-> fingerprints],
                   entered |-> config]
    /\ UNCHANGED <<config, call, result, ldfVars, sessionVars, toolVars>>

\* The second caller's call runs to its return statement: it computes with
\* self.config as it is now and with the objects it passed.
Leave ==
    /\ pending # NoCall
    /\ pending.phase = "entered"
    /\ LET a == pending.passed
           after == ObjectsAfterCalculate(config, a.aggregates, a.stats,
                                          a.fingerprints)
       IN  /\ pending' = [fn |-> "calculate", phase |-> "returned",
                          passed |-> a, entered |-> pending.entered,
                          left |-> [aggregates |-> after.aggregates,
                                    stats |-> after.stats,
                                    fingerprints |-> after.fingerprints],
                          result |-> calculate(config, a.aggregates, a.stats,
                                               a.fingerprints)]
           /\ config' = after.config
    /\ UNCHANGED <<call, result, ldfVars, sessionVars, toolVars>>

\* The second caller has used its result.
Drop ==
    /\ pending # NoCall
    /\ pending.phase = "returned"
    /\ pending' = NoCall
    /\ UNCHANGED <<config, call, result, ldfVars, sessionVars, toolVars>>

\* A call is made when no call is in progress; a calculator is constructed
\* before any caller uses it.
ConstructNext ==
    /\ call = NoCall
    /\ pending = NoCall
    /\ \E p \in ConfigPaths : Construct(p)

CalculateNext ==
    /\ call = NoCall
    /\ \E a \in Aggregates, s \in Stats, f \in Fingerprints : Calculate(a, s, f)

CalculateConfidenceNext ==
    /\ call = NoCall
    /\ \E m \in Metrics, p \in PreviousScores : CalculateConfidence(m, p)

Next == ConstructNext \/ CalculateNext \/ CalculateConfidenceNext \/ Return

Spec == Init /\ [][Next]_vars

\* The engine alone.
NextEngine == ConstructNext \/ CalculateNext \/ Return

SpecEngine == Init /\ [][NextEngine]_vars

\* The legacy calculator alone.
NextLegacy == CalculateConfidenceNext \/ Return

SpecLegacy == Init /\ [][NextLegacy]_vars

\* The owner of history.json writes it.
WriteHistory(file) ==
    /\ call = NoCall
    /\ history_json' = file
    /\ UNCHANGED <<call, result, other_data, events, bugs_file, issues,
                   calcVars, ldfVars, sessionVars>>

\* python calculate_confidence.py [--update], run in a directory without a
\* living-doc-config.yaml: get_config() constructs the LDFConfig when there
\* is none, then main does the rest.
Main(metrics, update_mode) ==
    LET after == main(history_json, metrics, update_mode, now)
    IN  /\ call = NoCall
        /\ _config = None => instances < MaxInstances
        /\ call' = [fn |-> "main", metrics |-> metrics, update_mode |-> update_mode]
        /\ result' = after.result
        /\ history_json' = after.history_json
        /\ _config' = IF _config = None
                      THEN Some(LDFConfig(None, "/bare", instances + 1))
                      ELSE _config
        /\ instances' = IF _config = None THEN instances + 1 ELSE instances
        /\ UNCHANGED <<returned, other_data, events, bugs_file, issues,
                       calcVars, sessionVars>>

\* main and the owner of history.json, on metrics with and without an open
\* P0 bug and with full, half and no documentation coverage.
SpecMain ==
    Init /\ [][\/ \E file \in HistoryFiles : WriteHistory(file)
               \/ \E update_mode \in BOOLEAN,
                     p0 \in {0, 1}, d \in {<<100, 0>>, <<50, 50>>, <<0, 0>>} :
                     Main([sev_p0 |-> p0, sev_p1 |-> 0, sev_p2 |-> 0, sev_p3 |-> 0,
                           mapped |-> d[1], unmapped |-> d[2], stale_count |-> 0,
                           avg_staleness |-> 0, tierA_stale_count |-> 0,
                           tierA_unmapped |-> 0, scripts |-> 100,
                           tests_count |-> 100, bug_resolve_pct |-> FP],
                          update_mode)
               \/ Return]_vars

\* The next run on the same metrics: the score the last call returned is the
\* previous_score of this one (main writes the score to the last history
\* entry, the next run's get_previous_score reads it).
Recalculate ==
    /\ call.fn = "calculate_confidence"
    /\ call' = [call EXCEPT !.previous_score = Some(result.score)]
    /\ result' = calculate_confidence(call.metrics, Some(result.score))
    /\ UNCHANGED <<calcVars, ldfVars, sessionVars, toolVars>>

\* Recalculate can take a step that changes the state: ENABLED
\* <<Recalculate>>_vars, written out.
RecalculateEnabled ==
    /\ call.fn = "calculate_confidence"
    /\ \/ call.previous_score # Some(result.score)
       \/ result # calculate_confidence(call.metrics, Some(result.score))

\* Runs of the legacy calculator on metrics that stay as they are.  The next
\* run always comes: weak fairness of Recalculate, WF_vars(Recalculate) with
\* its ENABLED written out.
SpecRepeat ==
    /\ Init
    /\ [][CalculateConfidenceNext \/ Recalculate]_vars
    /\ ([]<>~RecalculateEnabled \/ []<><<Recalculate>>_vars)

\* The calls two concurrent callers make on one calculator: a few of the
\* arguments above, with and without a bonus, a penalty, hotspots.
ConcurrentCalls ==
    {<<EmptyDict, None, None>>,
     <<[severity |-> [critical |-> Tier(1), high |-> Tier(0),
                      medium |-> Tier(0), low |-> Tier(0)],
        summary |-> [total_found |-> 92, total_fixed |-> 90]],
       Some([mapped |-> 50, scripts |-> 100, tests_count |-> 0]),
       Some([hotspots |-> <<[risk |-> "high", bug_recurrence |-> 3]>>])>>,
     <<[severity |-> [critical |-> Tier(0), high |-> Tier(1),
                      medium |-> Tier(1), low |-> Tier(0)],
        summary |-> [total_found |-> 11, total_fixed |-> 11]],
       Some([mapped |-> 90, scripts |-> 100, tests_count |-> 29]), None>>,
     <<[severity |-> [critical |-> Tier(0), high |-> Tier(0),
                      medium |-> Tier(0), low |-> Tier(1)],
        summary |-> [total_found |-> 20, total_fixed |-> 0]],
       Some(EmptyDict), Some([hotspots |-> <<>>])>>}

EnterNext == \E c \in ConcurrentCalls : Enter(c[1], c[2], c[3])

ConcurrentCalculateNext ==
    /\ call = NoCall
    /\ \E c \in ConcurrentCalls : Calculate(c[1], c[2], c[3])

\* Two callers of one calculator: the first caller's calls run while the
\* second caller's call is in progress, and the other way round.
NextConcurrent ==
    ConstructNext \/ ConcurrentCalculateNext \/ Return \/ EnterNext \/ Leave \/ Drop

SpecConcurrent == Init /\ [][NextConcurrent]_vars

\* config = LDFConfig(config_path), in the working directory cwd.
NewLDFConfig(config_path, cwd) ==
    /\ instances < MaxInstances
    /\ call' = [fn |-> "LDFConfig", config_path |-> config_path, cwd |-> cwd]
    /\ result' = LDFConfig(config_path, cwd, instances + 1)
    /\ instances' = instances + 1
    /\ UNCHANGED <<_config, returned, calcVars, sessionVars, toolVars>>

\* load_config(config_path) called as fn (load_config itself, or get_config,
\* which is load_config()): a new LDFConfig becomes the module-level _config
\* when there is none or a path is given, and _config is returned.  An
\* exception of the constructor leaves _config as it was.
load_config(fn, config_path, cwd) ==
    /\ call' = [fn |-> fn, config_path |-> config_path, cwd |-> cwd]
    /\ IF _config = None \/ config_path # None
       THEN /\ instances < MaxInstances
            /\ LET new == LDFConfig(config_path, cwd, instances + 1)
               IN  /\ result' = new
                   /\ _config' = IF Raised(new) THEN _config ELSE Some(new)
            /\ instances' = instances + 1
       ELSE /\ result' = _config[1]
            /\ UNCHANGED <<_config, instances>>
    /\ UNCHANGED <<returned, calcVars, sessionVars, toolVars>>

\* get_config()
get_config(cwd) == load_config("get_config", None, cwd)

NewLDFConfigNext ==
    /\ call = NoCall
    /\ \E p \in LDFConfigPaths, cwd \in Dirs : NewLDFConfig(p, cwd)

LoadConfigNext ==
    /\ call = NoCall
    /\ \E p \in LDFConfigPaths, cwd \in Dirs : load_config("load_config", p, cwd)

GetConfigNext ==
    /\ call = NoCall
    /\ \E cwd \in Dirs : get_config(cwd)

\* core/config.py alone.
NextConfig == NewLDFConfigNext \/ LoadConfigNext \/ GetConfigNext \/ Return

SpecConfig == Init /\ [][NextConfig]_vars

\* memory = SessionMemory(storage_dir) on a storage directory that holds
\* the files of dir.
OpenSession(dir) ==
    /\ call' = [fn |-> "SessionMemory", storage_dir |-> dir]
    /\ result' = NoCall
    /\ session_file' = dir.session_file
    /\ history_file' = dir.history_file
    /\ session_data' = _load_current(dir.session_file)
    /\ UNCHANGED <<now, calcVars, ldfVars, toolVars>>

\* session_id = memory.start(version, confidence=confidence)
Start(version, confidence) ==
    LET after == start(session_data, session_file, history_file, now,
                       version, confidence)
    IN  /\ call' = [fn |-> "start", version |-> version, confidence |-> confidence]
        /\ result' = after.returned
        /\ session_data' = after.data
        /\ session_file' = after.session_file
        /\ history_file' = after.history_file
        /\ UNCHANGED <<now, calcVars, ldfVars, toolVars>>

\* An hour passes.
Tick ==
    /\ now < MaxClock
    /\ now' = now + 1
    /\ UNCHANGED <<call, result, session_data, session_file, history_file,
                   calcVars, ldfVars, toolVars>>

OpenSessionNext ==
    /\ call = NoCall
    /\ \E dir \in StorageDirs : OpenSession(dir)

\* start() and start("1.1", confidence=80); a session is resumed at most
\* MaxResumes times.
StartNext ==
    /\ call = NoCall
    /\ Resumes(session_data, now)
         => Get(session_data[1], "resumed_count", 0) < MaxResumes
    /\ \E a \in {<<None, None>>, <<Some("1.1"), Some(80)>>} : Start(a[1], a[2])

\* The SessionMemory alone.
NextSession == OpenSessionNext \/ StartNext \/ Tick \/ Return

SpecSession == Init /\ [][NextSession]_vars

\* memory.add_file_modified(file_path)
AddFileModified(file_path) ==
    /\ call = NoCall
    /\ call' = [fn |-> "add_file_modified", file_path |-> file_path]
    /\ result' = NoCall
    /\ session_data' = add_file_modified(session_data, file_path)
    /\ UNCHANGED <<session_file, history_file, now, calcVars, ldfVars, toolVars>>

\* memory.add_agent_spawned(fingerprint, "review"); the session has not
\* spawned this agent in this hour.
AddAgentSpawned(fingerprint) ==
    /\ call = NoCall
    /\ Truthy(session_data)
         => LET agents == Get(session_data[1], "agents_spawned", <<>>)
            IN  \A i \in DOMAIN agents :
                    ~(agents[i].fingerprint = fingerprint
                      /\ agents[i].timestamp = Timestamp(now))
    /\ call' = [fn |-> "add_agent_spawned", fingerprint |-> fingerprint]
    /\ result' = NoCall
    /\ session_data' = add_agent_spawned(session_data, fingerprint, "review", now)
    /\ UNCHANGED <<session_file, history_file, now, calcVars, ldfVars, toolVars>>

\* memory.save()
Save ==
    /\ call = NoCall
    /\ call' = [fn |-> "save"]
    /\ result' = NoCall
    /\ session_data' = save(session_data, session_file, now).data
    /\ session_file' = save(session_data, session_file, now).session_file
    /\ UNCHANGED <<history_file, now, calcVars, ldfVars, toolVars>>

\* Four hours pass: a session not saved since is no longer recent.
Expire ==
    /\ now + 4 <= MaxClock
    /\ now' = now + 4
    /\ UNCHANGED <<call, result, session_data, session_file, history_file,
                   calcVars, ldfVars, toolVars>>

\* The operations of one SessionMemory, opened at the hour 0 on an empty or
\* on a full storage directory, over the hours.
SpecSessionOps ==
    Init /\ [][\/ /\ call = NoCall
                  /\ now = 0
                  /\ session_data = None
                  /\ session_file = Absent
                  /\ \E dir \in {[session_file |-> Absent, history_file |-> Absent],
                                 FullDir} : OpenSession(dir)
               \/ /\ call = NoCall
                  /\ Resumes(session_data, now)
                       => Get(session_data[1], "resumed_count", 0) < MaxResumes
                  /\ Start(None, None)
               \/ AddFileModified(FilesKeep + 1)
               \/ AddAgentSpawned(AgentsKeep + 1)
               \/ Save
               \/ Expire
               \/ Return]_vars

\* event_id = emit_event(event_type, data, summary)
Emit(event_type, data, summary) ==
    /\ call = NoCall
    /\ Len(events) < MaxEvents
    /\ call' = [fn |-> "emit", event_type |-> event_type]
    /\ result' = emit(events, event_type, data, summary, now).returned
    /\ events' = emit(events, event_type, data, summary, now).events
    /\ UNCHANGED <<other_data, history_json, bugs_file, issues,
                   calcVars, ldfVars, sessionVars>>

\* found = query_events(event_type, since, limit)
Query(event_type, since, limit) ==
    /\ call = NoCall
    /\ call' = [fn |-> "query", event_type |-> event_type, since |-> since,
                limit |-> limit]
    /\ result' = query(events, event_type, since, limit)
    /\ UNCHANGED <<calcVars, ldfVars, sessionVars, toolVars>>

\* The EventStream over the hours: events of the types "a.x", "a.y" and "b"
\* are emitted, and queried by type, by prefix, by time and by number.
SpecEvents ==
    Init /\ [][\/ \E event_type \in {<<"a", ".", "x">>, <<"a", ".", "y">>, <<"b">>} :
                    Emit(event_type, [key |-> "value"], "Test event emitted")
               \/ \E event_type \in {None, Some(<<"a", ".", "x">>),
                                     Some(<<"a", ".", "*">>), Some(<<"*">>)},
                     since \in {None, Some(Timestamp(1))},
                     limit \in {0, 1, 2, 100} :
                    Query(event_type, since, limit)
               \/ Tick
               \/ Return]_vars

\* context = wire_session_start(version)
WireSessionStart(version) ==
    LET after == wire_session_start(session_file, history_file, events, now, version)
    IN  /\ call = NoCall
        /\ Len(events) < MaxEvents
        /\ call' = [fn |-> "wire_session_start", version |-> version]
        /\ result' = after.returned
        /\ session_data' = after.data
        /\ session_file' = after.session_file
        /\ history_file' = after.history_file
        /\ events' = after.events
        /\ UNCHANGED <<now, other_data, history_json, bugs_file, issues,
                       calcVars, ldfVars>>

\* event_id = wire_version_change(old_version, new_version)
WireVersionChange(old_version, new_version) ==
    LET after == wire_version_change(session_file, events, now,
                                     old_version, new_version)
    IN  /\ call = NoCall
        /\ Len(events) < MaxEvents
        /\ call' = [fn |-> "wire_version_change", old_version |-> old_version,
                    new_version |-> new_version]
        /\ result' = after.returned
        /\ session_data' = after.data
        /\ session_file' = after.session_file
        /\ events' = after.events
        /\ UNCHANGED <<now, history_file, other_data, history_json, bugs_file,
                       issues, calcVars, ldfVars>>

\* other = SessionMemory(): another process constructs a SessionMemory on
\* the storage directory.
OpenOther ==
    /\ call = NoCall
    /\ call' = [fn |-> "SessionMemory", instance |-> "other"]
    /\ result' = NoCall
    /\ other_data' = _load_current(session_file)
    /\ UNCHANGED <<events, history_json, bugs_file, issues,
                   calcVars, ldfVars, sessionVars>>

\* other.save()
OtherSave ==
    /\ call = NoCall
    /\ call' = [fn |-> "save", instance |-> "other"]
    /\ result' = NoCall
    /\ other_data' = save(other_data, session_file, now).data
    /\ session_file' = save(other_data, session_file, now).session_file
    /\ UNCHANGED <<session_data, history_file, now, events, history_json,
                   bugs_file, issues, calcVars, ldfVars>>

\* The hooks, and another SessionMemory on the same storage directory, over
\* the hours.
SpecWiring ==
    Init /\ [][\/ \E version \in {None, Some("1.1")} : WireSessionStart(version)
               \/ WireVersionChange("1.1", "1.2")
               \/ OpenOther
               \/ OtherSave
               \/ Tick
               \/ Return]_vars

\* The tools are run on a repository that holds FetchLimit open issues.
AdoptRepository ==
    /\ call = NoCall
    /\ issues = <<>>
    /\ bugs_file = Absent
    /\ issues' = [n \in 1..FetchLimit |->
                    [number |-> n, title |-> [title |-> "Crash"], body |-> "",
                     labels |-> <<>>,
                     state |-> "OPEN", createdAt |-> 0]]
    /\ UNCHANGED <<call, result, other_data, events, history_json, bugs_file,
                   calcVars, ldfVars, sessionVars>>

\* Somebody files an issue on the repository.
FileIssue(labels, body) ==
    /\ call = NoCall
    /\ Len(issues) % FetchLimit < MaxIssues
    /\ issues' = Append(issues, [number |-> Len(issues) + 1,
                                 title |-> [title |-> "Crash"],
                                 body |-> body, labels |-> labels,
                                 state |-> "OPEN", createdAt |-> 0])
    /\ UNCHANGED <<call, result, other_data, events, history_json, bugs_file,
                   calcVars, ldfVars, sessionVars>>

\* Somebody closes the issue number n.
CloseIssue(n) ==
    /\ call = NoCall
    /\ n \in DOMAIN issues
    /\ issues[n].state = "OPEN"
    /\ issues' = [issues EXCEPT ![n].state = "CLOSED"]
    /\ UNCHANGED <<call, result, other_data, events, history_json, bugs_file,
                   calcVars, ldfVars, sessionVars>>

\* A scan records the local bug BUG-n in bugs.json.
AddBug(n) ==
    LET data == IF "doc" \in DOMAIN bugs_file
                THEN bugs_file.doc ELSE [schema_version |-> 1, bugs |-> <<>>]
    IN  /\ call = NoCall
        /\ [prefix |-> "BUG", n |-> n] \notin {data.bugs[i].id : i \in DOMAIN data.bugs}
        /\ bugs_file' =
             [doc |-> Put(data, "bugs",
                 Append(data.bugs,
                        [id |-> [prefix |-> "BUG", n |-> n], source |-> "scan",
                         type |-> "bug", severity |-> "P2", category |-> "general",
                         status |-> "open", title |-> "Leak", file |-> "",
                         line |-> 0, message |-> ""]))]
        /\ UNCHANGED <<call, result, other_data, events, history_json, issues,
                       calcVars, ldfVars, sessionVars>>

\* python github_sync.py --import; gh succeeds or fails.
ImportFromGithub(success) ==
    /\ call = NoCall
    /\ call' = [fn |-> "import_from_github", success |-> success]
    /\ result' = NoCall
    /\ bugs_file' = import_from_github(bugs_file, get_github_issues(issues, success))
    /\ UNCHANGED <<other_data, events, history_json, issues,
                   calcVars, ldfVars, sessionVars>>

\* python github_sync.py --export
ExportToGithub(outcome) ==
    LET after == export_to_github(bugs_file, issues, outcome)
    IN  /\ call = NoCall
        /\ Len(issues) % FetchLimit < MaxIssues
        /\ call' = [fn |-> "export_to_github", outcome |-> outcome]
        /\ result' = NoCall
        /\ bugs_file' = after.bugs_file
        /\ issues' = after.issues
        /\ UNCHANGED <<other_data, events, history_json,
                       calcVars, ldfVars, sessionVars>>

\* python github_sync.py --sync: the import, then the export.
SyncBidirectional(success, outcome) ==
    LET imported == import_from_github(bugs_file,
                                       get_github_issues(issues, success))
        after == export_to_github(imported, issues, outcome)
    IN  /\ call = NoCall
        /\ Len(issues) % FetchLimit < MaxIssues
        /\ call' = [fn |-> "sync_bidirectional", success |-> success,
                    outcome |-> outcome]
        /\ result' = NoCall
        /\ bugs_file' = after.bugs_file
        /\ issues' = after.issues
        /\ UNCHANGED <<other_data, events, history_json,
                       calcVars, ldfVars, sessionVars>>

\* The synchronisation runs, the scans and the people filing and closing
\* issues, on a repository that is empty or holds FetchLimit issues at first.
SpecSync ==
    Init /\ [][\/ AdoptRepository
               \/ \E filed \in {<<<<>>, "">>, <<<<"bug", "investigating">>, "">>,
                                <<<<"false-positive">>, "by design">>} :
                     FileIssue(filed[1], filed[2])
               \/ \E n \in {1, Len(issues)} : CloseIssue(n)
               \/ \E n \in 1..MaxBugs : AddBug(n)
               \/ \E success \in BOOLEAN : ImportFromGithub(success)
               \/ \E outcome \in [1..MaxBugs -> {"failed", "url", "no_url"}] :
                     ExportToGithub(outcome)
               \/ \E success \in BOOLEAN,
                     outcome \in [1..MaxBugs -> {"failed", "url", "no_url"}] :
                     SyncBidirectional(success, outcome)
               \/ Return]_vars

\* ------------------------------------------------------------------------
\* Properties of the legacy calculator and of the engine
\* ------------------------------------------------------------------------

\* C1: whenever calculate_confidence is called with sev_p0 > 0, the returned
\* release gates have can_ship False and p0_zero False, whatever the other
\* metrics and whatever previous_score is.
C1_OpenP0BlocksShipping ==
    (call.fn = "calculate_confidence" /\ Get(call.metrics, "sev_p0", 0) > 0)
        => (~result.release_gates.can_ship /\ ~result.release_gates.p0_zero)

\* An open P0 bug with every other gate passing, the score gate included.
C1_Witness ==
    /\ call.fn = "calculate_confidence"
    /\ Get(call.metrics, "sev_p0", 0) > 0
    /\ result.release_gates.score_ok
    /\ result.release_gates.staleness_ok
    /\ result.release_gates.tier_a_mapped
    /\ ~result.release_gates.can_ship

\* C2: under the default FormulaConfig the score ConfidenceCalculator.calculate
\* returns lies in [0, 100] and is rounded to one decimal place.
C2_ScoreInRangeOneDecimal ==
    (call.fn = "calculate" /\ ~Raised(result) /\ config = FormulaConfig)
        => /\ result.score >= 0
           /\ result.score <= 100 * FP
           /\ result.score % (FP \div 10) = 0

\* A score strictly inside the range that needs its decimal.
C2_Witness ==
    /\ call.fn = "calculate"
    /\ ~Raised(result)
    /\ config = FormulaConfig
    /\ result.score > 0
    /\ result.score < 100 * FP
    /\ result.score % FP # 0

\* C3 as stated: the returned score lies between the returned base_score and
\* previous_score (inclusive) when previous_score is supplied, and equals
\* base_score when it is None.
C3_ScoreBetweenBaseAndPrevious ==
    call.fn = "calculate_confidence"
        => IF call.previous_score = None
           THEN result.score = result.base_score
           ELSE /\ result.score >= Min2(result.base_score, call.previous_score[1])
                /\ result.score <= Max2(result.base_score, call.previous_score[1])

\* C3, as the code has it: when previous_score is a whole number the returned
\* score lies between the returned base_score and previous_score (inclusive),
\* and when previous_score is None it equals base_score.
C3_ScoreBetweenBaseAndWholePrevious ==
    call.fn = "calculate_confidence"
        => IF call.previous_score = None
           THEN result.score = result.base_score
           ELSE (call.previous_score[1] % FP = 0)
                => /\ result.score >= Min2(result.base_score, call.previous_score[1])
                   /\ result.score <= Max2(result.base_score, call.previous_score[1])

\* The smoothing has moved the score strictly between a whole previous score
\* and the base score.
C3_Witness ==
    /\ call.fn = "calculate_confidence"
    /\ call.previous_score # None
    /\ call.previous_score[1] % FP = 0
    /\ result.score > call.previous_score[1]
    /\ result.score < result.base_score

\* C4: can_ship equals (sev_p0 = 0 and tierA_unmapped = 0) for every input:
\* score_ok and staleness_ok never block shipping.
C4_CanShipIsP0AndTierA ==
    call.fn = "calculate_confidence"
        => result.release_gates.can_ship
             = (Get(call.metrics, "sev_p0", 0) = 0
                /\ Get(call.metrics, "tierA_unmapped", 0) = 0)

\* Shipping allowed with a failing score gate and a failing staleness gate.
C4_Witness ==
    /\ call.fn = "calculate_confidence"
    /\ result.release_gates.can_ship
    /\ ~result.release_gates.score_ok
    /\ ~result.release_gates.staleness_ok

\* C5: raw_total is the sum of the nine penalty components, total is
\* max(0, raw_total - fix_ratio_bonus); total is never negative and never
\* above raw_total, and when the bonus is at least the penalties the total is
\* 0 and the score 100.
C5_TotalIsFlooredRawMinusBonus ==
    (call.fn = "calculate" /\ ~Raised(result))
        => LET l == result.locals
               pb == result.penalty_breakdown
           IN  /\ l.raw_penalty = l.severity_penalty + l.doc_penalty
                    + l.staleness_penalty + l.tier_a_penalty + l.test_penalty
                    + l.resolve_penalty + l.persistence_penalty
                    + l.hotspot_penalty + l.recurrence_penalty
               /\ l.total_penalty = Max2(0, l.raw_penalty - l.fix_ratio_bonus)
               /\ l.total_penalty >= 0
               /\ l.total_penalty <= l.raw_penalty
               /\ pb.total >= 0
               /\ pb.total <= pb.raw_total
               /\ (l.fix_ratio_bonus >= l.raw_penalty
                     => (l.total_penalty = 0 /\ pb.total = 0
                         /\ result.score = 100 * FP))

\* A bonus larger than the penalties it is subtracted from.
C5_Witness ==
    /\ call.fn = "calculate"
    /\ ~Raised(result)
    /\ result.locals.raw_penalty > 0
    /\ result.locals.fix_ratio_bonus > result.locals.raw_penalty
    /\ result.locals.total_penalty = 0
    /\ result.score = 100 * FP

\* C6: fix_ratio_bonus is exactly 0 whenever total_found <= 10, whatever
\* total_fixed is, and whenever fix_ratio_bonus_enabled is false.
C6_NoBonusForSmallSampleOrDisabled ==
    (call.fn = "calculate" /\ ~Raised(result)
     /\ (result.inputs.bugs_total <= 10 \/ ~config.fix_ratio_bonus_enabled))
        => (result.locals.fix_ratio_bonus = 0
            /\ result.penalty_breakdown.fix_ratio_bonus = 0)

\* Ten bugs found and all ten fixed, with the bonus enabled: no bonus.
C6_Witness ==
    /\ call.fn = "calculate"
    /\ ~Raised(result)
    /\ config.fix_ratio_bonus_enabled
    /\ result.inputs.bugs_total = 10
    /\ result.inputs.bugs_fixed = 10
    /\ result.locals.fix_ratio_bonus = 0

\* C7: under the default caps (35, 10, 10, 8, 3, 6, 6, 4) each penalty
\* component is at least 0 and at most its cap, unrounded and as reported,
\* and raw_total is at most the sum of the caps.
C7_PenaltiesWithinCaps ==
    (call.fn = "calculate" /\ ~Raised(result)
     /\ \A f \in {"cap_severity", "cap_doc", "cap_staleness", "cap_tier_a",
                  "cap_test", "cap_resolution", "cap_hotspot", "cap_recurrence"} :
            config[f] = FormulaConfig[f])
        => LET l == result.locals
               pb == result.penalty_breakdown
               Within(x, cap) == x >= 0 /\ x <= cap
               caps == 35 * FP + 10 * FP + 10 * FP + 8 * FP + 3 * FP + 6 * FP
                         + 6 * FP + 4 * FP
           IN  /\ Within(l.severity_penalty, 35 * FP)
               /\ Within(l.doc_penalty, 10 * FP)
               /\ Within(l.staleness_penalty, 10 * FP)
               /\ Within(l.tier_a_penalty, 8 * FP)
               /\ Within(l.test_penalty, 3 * FP)
               /\ Within(l.resolve_penalty, 6 * FP)
               /\ Within(l.hotspot_penalty, 6 * FP)
               /\ Within(l.recurrence_penalty, 4 * FP)
               /\ l.persistence_penalty = 0
               /\ Within(pb.severity, 35 * FP)
               /\ Within(pb.doc_coverage, 10 * FP)
               /\ Within(pb.staleness, 10 * FP)
               /\ Within(pb.tier_a_unmapped, 8 * FP)
               /\ Within(pb.test_coverage, 3 * FP)
               /\ Within(pb.bug_resolution, 6 * FP)
               /\ Within(pb.hotspot_risk, 6 * FP)
               /\ Within(pb.recurrence, 4 * FP)
               /\ Within(l.raw_penalty, caps)
               /\ Within(pb.raw_total, caps)

\* The doc coverage cap, the resolution cap and the hotspot cap all bind.
C7_Witness ==
    /\ call.fn = "calculate"
    /\ ~Raised(result)
    /\ result.locals.doc_penalty = config.cap_doc
    /\ result.locals.resolve_penalty = config.cap_resolution
    /\ result.locals.hotspot_penalty = config.cap_hotspot
    /\ config.cap_hotspot = 6 * FP

\* C8: the severity penalty does not decrease when one more bug is open in
\* any one tier, and it never exceeds cap_severity, however large the open
\* counts are.
C8_SeverityMonotoneAndCapped ==
    (call.fn = "calculate" /\ ~Raised(result))
        => LET i == result.inputs
               t0 == SeverityTier(config.p0_max, config.p0_k, i.p0_open)
               t1 == SeverityTier(config.p1_max, config.p1_k, i.p1_open)
               t2 == SeverityTier(config.p2_max, config.p2_k, i.p2_open)
               t3 == SeverityTier(config.p3_max, config.p3_k, i.p3_open)
               n0 == SeverityTier(config.p0_max, config.p0_k, i.p0_open + 1)
               n1 == SeverityTier(config.p1_max, config.p1_k, i.p1_open + 1)
               n2 == SeverityTier(config.p2_max, config.p2_k, i.p2_open + 1)
               n3 == SeverityTier(config.p3_max, config.p3_k, i.p3_open + 1)
               here == result.locals.severity_penalty
           IN  /\ here = SeverityPenalty(config, t0, t1, t2, t3)
               /\ here <= config.cap_severity
               /\ result.penalty_breakdown.severity <= config.cap_severity
               /\ SeverityPenalty(config, n0, t1, t2, t3) >= here
               /\ SeverityPenalty(config, t0, n1, t2, t3) >= here
               /\ SeverityPenalty(config, t0, t1, n2, t3) >= here
               /\ SeverityPenalty(config, t0, t1, t2, n3) >= here

\* Every tier saturated: the penalty has reached the sum of the tier
\* maxima and stays under the cap.
C8_Witness ==
    /\ call.fn = "calculate"
    /\ ~Raised(result)
    /\ result.inputs.p0_open = LargeOpen
    /\ result.inputs.p1_open = LargeOpen
    /\ result.inputs.p2_open = LargeOpen
    /\ result.inputs.p3_open = LargeOpen
    /\ result.locals.severity_penalty
         = config.p0_max + config.p1_max + config.p2_max + config.p3_max
    /\ result.locals.severity_penalty <= config.cap_severity

\* C9: the doc coverage penalty is exactly 0 whenever
\* mapped / max(scripts, 1) >= doc_target, also when mapped exceeds scripts.
C9_NoDocPenaltyAtTarget ==
    (call.fn = "calculate" /\ ~Raised(result))
        => LET stats == IF call.stats = None
                        THEN [mapped |-> 100, scripts |-> 100]
                        ELSE call.stats[1]
               mapped == Get(stats, "mapped", 0)
               scripts == Get(stats, "scripts", 1)
           IN  (mapped * FP >= config.doc_target * Max2(scripts, 1))
                  => (result.locals.doc_penalty = 0
                      /\ result.penalty_breakdown.doc_coverage = 0)

\* More files mapped than scripts: coverage above 100%, no penalty.
C9_Witness ==
    /\ call.fn = "calculate"
    /\ ~Raised(result)
    /\ call.stats # None
    /\ Get(call.stats[1], "mapped", 0) > Get(call.stats[1], "scripts", 1)
    /\ result.locals.doc_coverage > FP
    /\ result.locals.doc_penalty = 0

C11_CalculateNeverRaises ==
    LET DataModelInvariant(cfg) ==
            /\ \A f \in {"cap_severity", "cap_doc", "cap_staleness", "cap_tier_a",
                         "cap_test", "cap_resolution", "cap_hotspot",
                         "cap_recurrence"} : cfg[f] >= 0
            /\ \A f \in {"p0_k", "p1_k", "p2_k", "p3_k"} : cfg[f] > 0
            /\ \A f \in {"doc_target", "fix_target", "test_target"} :
                  cfg[f] >= 0 /\ cfg[f] <= FP
    IN  (call.fn = "calculate" /\ DataModelInvariant(config)) => ~Raised(result)

\* C12 as stated: constructing a ConfidenceCalculator never raises, and
\* whenever loading fails (file missing, unparsable JSON, an exception
\* part-way through the document) the configuration equals the built-in
\* defaults in every field.
C12_FailedLoadKeepsDefaults ==
    call.fn = "__init__"
        => /\ ~Raised(result)
           /\ (/\ call.config_path # None
               /\ \/ ~call.config_path[1].exists
                  \/ LoadRaises(call.config_path[1]) # "none")
                 => config = FormulaConfig

\* C13: when a configuration document is loaded (its loading raises
\* nothing), every field the document names overrides the FormulaConfig
\* default and every other field, the unnamed fields of a present section
\* included, keeps its default.  Each field is <<field, section, key>>; a
\* field of the formula itself has section "".
C13_MergeIsPerField ==
    (/\ call.fn = "__init__"
     /\ call.config_path # None
     /\ call.config_path[1].exists
     /\ LoadRaises(call.config_path[1]) = "none")
        => LET formula == Get(call.config_path[1].data.fields,
                              "confidence_formula", JObject(EmptyDict)).fields
               fields ==
                   {<<"K", "", "K">>,
                    <<"p0_max", "severity_weights", "p0_max">>,
                    <<"p0_k", "severity_weights", "p0_k">>,
                    <<"p1_max", "severity_weights", "p1_max">>,
                    <<"p1_k", "severity_weights", "p1_k">>,
                    <<"p2_max", "severity_weights", "p2_max">>,
                    <<"p2_k", "severity_weights", "p2_k">>,
                    <<"p3_max", "severity_weights", "p3_max">>,
                    <<"p3_k", "severity_weights", "p3_k">>,
                    <<"cap_severity", "penalty_caps", "severity">>,
                    <<"cap_doc", "penalty_caps", "doc_coverage">>,
                    <<"cap_staleness", "penalty_caps", "staleness">>,
                    <<"cap_tier_a", "penalty_caps", "tier_a">>,
                    <<"cap_test", "penalty_caps", "test_coverage">>,
                    <<"cap_resolution", "penalty_caps", "resolution">>,
                    <<"cap_hotspot", "penalty_caps", "hotspot">>,
                    <<"cap_recurrence", "penalty_caps", "recurrence">>,
                    <<"doc_target", "thresholds", "doc_coverage_target">>,
                    <<"fix_target", "thresholds", "fix_rate_target">>,
                    <<"test_target", "thresholds", "test_coverage_target">>,
                    <<"alpha", "bayesian_priors", "alpha">>,
                    <<"beta", "bayesian_priors", "beta">>,
                    <<"fix_ratio_bonus_enabled", "fix_ratio_bonus", "enabled">>,
                    <<"fix_ratio_bonus_threshold", "fix_ratio_bonus", "threshold">>,
                    <<"fix_ratio_bonus_max", "fix_ratio_bonus", "max_bonus">>,
                    <<"investigating_discount", "", "investigating_discount">>}
               Holder(t) == IF t[2] = "" THEN formula
                            ELSE IF t[2] \in DOMAIN formula
                                 THEN formula[t[2]].fields
                                 ELSE EmptyDict
           IN  /\ DOMAIN config = {t[1] : t \in fields}
               /\ \A t \in fields :
                     config[t[1]] = IF t[3] \in DOMAIN Holder(t)
                                    THEN Holder(t)[t[3]]
                                    ELSE FormulaConfig[t[1]]

\* A document whose fix_ratio_bonus section names `enabled` alone: enabled
\* is overridden, threshold and max_bonus keep their defaults.
C13_Witness ==
    /\ call.fn = "__init__"
    /\ call.config_path # None
    /\ call.config_path[1].exists
    /\ LoadRaises(call.config_path[1]) = "none"
    /\ "confidence_formula" \in DOMAIN call.config_path[1].data.fields
    /\ DOMAIN call.config_path[1].data.fields.confidence_formula.fields
         = {"fix_ratio_bonus"}
    /\ DOMAIN call.config_path[1].data.fields.confidence_formula.fields
                .fix_ratio_bonus.fields = {"enabled"}
    /\ config.fix_ratio_bonus_enabled = FALSE
    /\ config.fix_ratio_bonus_threshold = FormulaConfig.fix_ratio_bonus_threshold
    /\ config.fix_ratio_bonus_max = FormulaConfig.fix_ratio_bonus_max

\* C14 as stated: the FormulaConfig of a constructed ConfidenceCalculator
\* satisfies the data-model invariant (every cap >= 0, every saturation rate
\* p0_k..p3_k > 0, every target in [0, 1]), whatever document it was loaded
\* from.
C14_ConfigSatisfiesInvariant ==
    LET DataModelInvariant(cfg) ==
            /\ \A f \in {"cap_severity", "cap_doc", "cap_staleness", "cap_tier_a",
                         "cap_test", "cap_resolution", "cap_hotspot",
                         "cap_recurrence"} : cfg[f] >= 0
            /\ \A f \in {"p0_k", "p1_k", "p2_k", "p3_k"} : cfg[f] > 0
            /\ \A f \in {"doc_target", "fix_target", "test_target"} :
                  cfg[f] >= 0 /\ cfg[f] <= FP
    IN  DataModelInvariant(config)

C16_GatesMatchReturnedScore ==
    call.fn = "calculate_confidence"
        => /\ result.release_gates.score_ok <=> (result.score >= 70 * FP)
           /\ result.release_gates.staleness_ok
                <=> (Get(call.metrics, "avg_staleness", 0) < 21 * FP)

\* C16 (amended): score_ok is true exactly when the final score before
\* rounding is at least 70; the returned score is that value rounded to a
\* whole number, so score_ok implies a returned score of at least 70, and a
\* returned score of at least 70 with score_ok false is a returned score of
\* exactly 70.  staleness_ok is true exactly when avg_staleness is below 21.
C16_GatesMatchUnroundedScore ==
    call.fn = "calculate_confidence"
        => /\ result.release_gates.score_ok
                <=> (result.locals.final_score >= 70 * FP)
           /\ result.score = Round0(result.locals.final_score)
           /\ result.release_gates.score_ok => result.score >= 70 * FP
           /\ (result.score >= 70 * FP /\ ~result.release_gates.score_ok)
                => result.score = 70 * FP
           /\ result.release_gates.staleness_ok
                <=> (Get(call.metrics, "avg_staleness", 0) < 21 * FP)

\* A result that reports the score 70 and score_ok false, staleness_ok true.
C16_Witness ==
    /\ call.fn = "calculate_confidence"
    /\ result.score = 70 * FP
    /\ ~result.release_gates.score_ok
    /\ result.release_gates.staleness_ok

\* C17 (as stated): without a previous score, metrics with sev_p0 >= 1 give
\* a strictly lower score than the same metrics with sev_p0 = 0, and a
\* severity penalty of at least 10.
C17_OpenP0LowersScore ==
    (/\ call.fn = "calculate_confidence"
     /\ call.previous_score = None
     /\ Get(call.metrics, "sev_p0", 0) >= 1)
        => LET without == calculate_confidence([call.metrics EXCEPT !.sev_p0 = 0], None)
           IN  /\ result.score < without.score
               /\ result.penalty_breakdown.severity >= 10 * FP

\* C17 (amended): without a previous score, metrics with sev_p0 >= 1 give a
\* severity penalty of at least 10 and a score that is never higher than
\* that of the same metrics with sev_p0 = 0; the score is strictly lower
\* when the other tiers weigh at most 30 (3*sev_p1 + sev_p2 + 0.05*sev_p3),
\* and it is the same score when the other tiers alone reach the cap of 40.
C17_OpenP0LowersScoreBelowCap ==
    (/\ call.fn = "calculate_confidence"
     /\ call.previous_score = None
     /\ Get(call.metrics, "sev_p0", 0) >= 1)
        => LET without == calculate_confidence([call.metrics EXCEPT !.sev_p0 = 0], None)
               others == 3 * call.metrics.sev_p1 * FP + call.metrics.sev_p2 * FP
                           + RDiv(5 * call.metrics.sev_p3 * FP, 100)
           IN  /\ result.penalty_breakdown.severity >= 10 * FP
               /\ result.score <= without.score
               /\ others <= 30 * FP => result.score < without.score
               /\ others >= 40 * FP => result.score = without.score

\* One open P0 bug on top of fourteen P1 bugs: the severity penalty is at
\* its cap with and without it.
C17_Witness ==
    /\ call.fn = "calculate_confidence"
    /\ call.previous_score = None
    /\ Get(call.metrics, "sev_p0", 0) = 1
    /\ Get(call.metrics, "sev_p1", 0) = 14
    /\ result.penalty_breakdown.severity = 40 * FP

\* ------------------------------------------------------------------------
\* Properties of core/config.py
\* ------------------------------------------------------------------------

\* C18: load_config caches the configuration: two successive calls
\* load_config(p) with the same path p return the same LDFConfig instance,
\* and get_config() after a load returns that cached instance.
C18_LoadConfigCaches ==
    Len(returned) >= 2
        => LET first == returned[Len(returned) - 1]
               second == returned[Len(returned)]
           IN  (/\ first.fn = "load_config"
                /\ ~Raised(first.result)
                /\ ~Raised(second.result)
                /\ \/ second.fn = "get_config"
                   \/ /\ second.fn = "load_config"
                      /\ second.config_path = first.config_path)
                 => second.result.id = first.result.id

\* C19: an LDFConfig constructed with a config_path whose directory holds
\* no living-doc-config.yaml reports the defaults: language 'python',
\* main_branch 'main', code_root 'src', code_extensions containing 'py'.
C19_DefaultsWithoutFile ==
    (/\ call.fn = "LDFConfig"
     /\ call.config_path # None
     /\ ~Exists(call.config_path[1].dir))
        => /\ ~Raised(result)
           /\ language(result) = "python"
           /\ main_branch(result) = "main"
           /\ code_root(result) = "src"
           /\ \E i \in DOMAIN code_extensions(result) :
                 code_extensions(result)[i] = "py"

\* ------------------------------------------------------------------------
\* Properties of the SessionMemory
\* ------------------------------------------------------------------------

\* C20: a call of start, when a current session exists whose last_update is
\* less than 4 hours old, returns that session's id, adds exactly 1 to its
\* resumed_count and leaves the history as it is; otherwise it appends the
\* existing session, if any, to the history exactly once and creates a
\* session with a new id and resumed_count 0.  In both cases the session
\* whose id is returned is the one current_session.json holds.
C20_StartResumesOrArchives ==
    [][(call = NoCall /\ call'.fn = "start")
        => LET exists == session_data # None /\ session_data[1] # EmptyDict
               recent == /\ exists
                         /\ "last_update" \in DOMAIN session_data[1]
                         /\ "iso" \in DOMAIN session_data[1].last_update
                         /\ now - session_data[1].last_update.iso < 4
               before == IF "doc" \in DOMAIN history_file
                         THEN history_file.doc ELSE <<>>
               after == IF "doc" \in DOMAIN history_file'
                        THEN history_file'.doc ELSE <<>>
           IN  /\ IF recent
                  THEN /\ result' = session_data[1].session_id
                       /\ session_data'[1].resumed_count
                            = Get(session_data[1], "resumed_count", 0) + 1
                       /\ history_file' = history_file
                  ELSE /\ IF exists
                          THEN Len(before) < HistoryKeep
                                 => after = Append(before, session_data[1])
                          ELSE history_file' = history_file
                       /\ session_data'[1].resumed_count = 0
                       /\ exists /\ "session_id" \in DOMAIN session_data[1]
                            => result' # session_data[1].session_id
                       /\ \A i \in DOMAIN after : after[i].session_id # result'
               /\ session_data'[1].session_id = result'
               /\ session_file' = [doc |-> session_data'[1]]]_vars

\* A call of start has resumed a session that an earlier call of start
\* created after archiving the session before it, next to older history.
C20_Witness ==
    /\ call.fn = "start"
    /\ session_data[1].resumed_count = 1
    /\ "doc" \in DOMAIN history_file
    /\ Len(history_file.doc) = 2
    /\ session_data[1].session_id = result
    /\ session_data[1].session_id \in {_generate_session_id(t) : t \in 0..MaxClock}

\* ------------------------------------------------------------------------
\* Further properties of the engine and of the legacy calculator
\* ------------------------------------------------------------------------

\* C24: in ConfidenceCalculator.calculate the fix_ratio_bonus lies in
\* [0, fix_ratio_bonus_max] for every non-negative total_found and
\* total_fixed, so the bonus cancels at most fix_ratio_bonus_max points of
\* penalty.
C24_BonusWithinMax ==
    (call.fn = "calculate" /\ ~Raised(result))
        => /\ result.locals.fix_ratio_bonus >= 0
           /\ result.locals.fix_ratio_bonus <= config.fix_ratio_bonus_max
           /\ result.locals.raw_penalty - result.locals.total_penalty
                <= config.fix_ratio_bonus_max

\* C26 (as stated): with the metrics held constant, calling
\* calculate_confidence again and again with the score of the preceding call
\* as previous_score eventually returns a score equal to its base_score and
\* stays there, from any starting previous_score in [0, 100].  The calls
\* are deterministic, so the score they stay at is the one that a call
\* returns when it is given that same score: that score is the base_score.
C26_RepeatedScoreReachesBase ==
    (call.fn = "calculate_confidence" /\ call.previous_score = Some(result.score))
        => result.score = result.base_score

\* C26 (amended): the repeated calls eventually return the score they were
\* given as previous_score and stay there; that score is within 1 of the
\* returned base_score, and need not equal it.
C26_RepeatedScoreSettlesNearBase ==
    <>[](call.fn = "calculate_confidence"
           => /\ call.previous_score = Some(result.score)
              /\ result.score - result.base_score <= FP
              /\ result.base_score - result.score <= FP)

\* The calls have settled one above the base_score.
C26_Witness ==
    /\ call.fn = "calculate_confidence"
    /\ call.previous_score = Some(result.score)
    /\ result.score = result.base_score + FP

C21_SessionMemoryStaysBounded ==
    [][/\ \A data \in {session_data', _load_current(session_file')} :
            Truthy(data) =>
                LET files == Get(data[1], "files_modified", <<>>)
                IN  /\ Len(files) <= FilesKeep
                    /\ Cardinality({files[i] : i \in DOMAIN files}) = Len(files)
                    /\ Len(Get(data[1], "agents_spawned", <<>>)) <= AgentsKeep
       /\ "doc" \in DOMAIN history_file' => Len(history_file'.doc) <= HistoryKeep
       /\ (call = NoCall /\ call'.fn = "start" /\ Truthy(session_data)
           /\ ~Resumes(session_data, now))
           => LET before == IF "doc" \in DOMAIN history_file
                            THEN history_file.doc ELSE <<>>
                  after == history_file'.doc
              IN  /\ Len(after) = IF Len(before) < HistoryKeep
                                  THEN Len(before) + 1 ELSE HistoryKeep
                  /\ after[Len(after)] = session_data[1]
                  /\ \A i \in 1..(Len(after) - 1) :
                        after[i] = before[Len(before) - (Len(after) - 1) + i]]_vars

\* start has archived a session of 100 files, the path added last among
\* them, and of 20 agents, the agent spawned last among them, into a history
\* of 50 sessions that has lost its oldest session.
C21_Witness ==
    /\ call.fn = "start"
    /\ "doc" \in DOMAIN history_file
    /\ Len(history_file.doc) = HistoryKeep
    /\ history_file.doc[1].session_id = _generate_session_id(2 - 100)
    /\ LET last == history_file.doc[HistoryKeep]
       IN  /\ "files_modified" \in DOMAIN last
           /\ Len(last.files_modified) = FilesKeep
           /\ last.files_modified[FilesKeep] = FilesKeep + 1
           /\ Len(last.agents_spawned) = AgentsKeep
           /\ last.agents_spawned[AgentsKeep].fingerprint = AgentsKeep + 1

\* C27: wire_session_start emits an event of type 'session.resume' exactly
\* when SessionMemory.start resumed the existing current session (returned
\* its existing id), and of type 'session.start' exactly when start created
\* a new session.
C27_EventTypeFollowsStart ==
    [][(call = NoCall /\ call'.fn = "wire_session_start")
        => LET session == _load_current(session_file)
               resumed == /\ Resumes(session, now)
                          /\ result'.current_session_id = session[1].session_id
           IN  events'[Len(events')].type
                 = IF resumed THEN "session.resume" ELSE "session.start"]_vars

\* C30: after wire_version_change(old, new) returns with an active session,
\* the persisted current session's version_current stays equal to new until
\* the next version change or new session, whatever save() calls are made
\* afterwards by other SessionMemory instances that were created before the
\* change.  The last event of the stream being the version.bump says that
\* no session was started and no version changed since.
C30_VersionSurvivesOtherSaves ==
    (/\ events # <<>>
     /\ events[Len(events)].type = "version.bump"
     /\ "doc" \in DOMAIN session_file)
        => session_file.doc.version_current
             = Some(events[Len(events)].data.new_version)

\* ------------------------------------------------------------------------
\* Properties of the EventStream
\* ------------------------------------------------------------------------

\* C22: EventStream.query(limit=n) returns at most n events for every
\* n >= 0: the n most recently emitted events that pass the type and since
\* filters, in emission order; with no filters and fewer than n events
\* emitted it returns all of them.
C22_QueryReturnsAtMostLimit ==
    call.fn = "query"
        => LET passing == query(events, call.event_type, call.since, 100)
               n == call.limit
           IN  /\ Len(result) <= n
               /\ result = IF Len(passing) > n
                           THEN SubSeq(passing, Len(passing) - n + 1, Len(passing))
                           ELSE passing
               /\ (call.event_type = None /\ call.since = None /\ Len(events) < n)
                    => result = events

\* C23: every EventStream.emit returns an event id different from the id of
\* every event emitted earlier to the same events file, so that
\* get_event(id) returns exactly the event that this emit appended.
C23_EmitReturnsFreshId ==
    call.fn = "emit"
        => /\ \A i \in 1..(Len(events) - 1) : events[i].id # result
           /\ get_event(events, result) = Some(events[Len(events)])
           /\ events[Len(events)].id = result

\* ------------------------------------------------------------------------
\* Properties of the GitHub synchronisation
\* ------------------------------------------------------------------------

\* C28: import_from_github is idempotent and duplicate-free: after any
\* number of runs the local bugs list holds exactly one bug per GitHub issue
\* number, each with the status derived from the issue's current state and
\* labels, and a further run against an unchanged issue list changes
\* nothing; a run whose fetch fails or returns no issues leaves the bugs
\* file untouched.
C28_ImportIsIdempotentAndComplete ==
    [][(call = NoCall /\ call'.fn = "import_from_github")
        => IF call'.success /\ issues # <<>>
           THEN LET bugs == bugs_file'.doc.bugs
                    numbered == {i \in DOMAIN bugs :
                                   Get(bugs[i], "github_number", 0) # 0}
                IN  /\ {bugs[i].github_number : i \in numbered} = DOMAIN issues
                    /\ Cardinality(numbered) = Len(issues)
                    /\ \A i \in numbered :
                          bugs[i].status
                            = parse_issue_to_bug(issues[bugs[i].github_number]).status
                    /\ import_from_github(bugs_file',
                                          get_github_issues(issues, TRUE))
                         = bugs_file'
           ELSE bugs_file' = bugs_file]_vars

\* C29: across any sequence of export_to_github and sync_bidirectional
\* runs, at most one GitHub issue is created for each local bug: a bug for
\* which issue creation has once succeeded is never submitted again, and
\* bugs that came from GitHub (github_number set or id starting with GH-)
\* are never exported.
C29_OneIssuePerLocalBug ==
    LET exported == {i \in DOMAIN issues : "bug_id" \in DOMAIN issues[i].title}
    IN  /\ \A i, j \in exported :
              issues[i].title.bug_id = issues[j].title.bug_id => i = j
        /\ \A i \in exported : issues[i].title.bug_id.prefix # "GH"

====
